---- MODULE Spec2Model ----
(***************************************************************************)
(* Model of src/src/nfd_portal.cpp: the xdg-desktop-portal "open one file" *)
(* exchange (NFD_OpenDialogN) with its helpers, the D-Bus connection it     *)
(* talks through and the process-wide last-error slot.                     *)
(*                                                                         *)
(* The operation blocks at three places (the synchronous OpenFile call,    *)
(* the queue of received messages, dbus_connection_read_write); each       *)
(* stretch of code between two such places is one action.  The portal, the *)
(* other users of the shared session-bus connection and the loss of the    *)
(* connection are the environment's actions.                               *)
(*                                                                         *)
(* The file assumes malloc never fails (line 7), so no transport call      *)
(* fails for lack of memory: dbus_bus_remove_match fails exactly when the  *)
(* bus holds no such rule (never added, or dropped with the connection).   *)
(***************************************************************************)
EXTENDS Naturals, Sequences, FiniteSets

VARIABLES
    pc,               \* position of NFD_OpenDialogN
    result,           \* its return value, "none" until it returns
    err_ptr,          \* the last-error slot
    dbus_err,         \* the transport error buffer (dbus_err)
    outPath,          \* *outPath
    handle_obj_path,  \* the guessed callback address
    sub_cmd,          \* DBusSignalSubscriptionHandler::sub_cmd
    busRules,         \* match rules the bus holds for this manager
    busLog,           \* the add-match / remove-match requests made, in order
    query,            \* the call message
    reply,            \* the reply message
    portalReply,      \* what the portal answered to the call (in flight)
    responded,        \* the portal has emitted its Response signal
    wire,             \* messages routed to the connection, not yet read
    queue,            \* the connection's queue of received messages
    closed,           \* the connection was lost
    nForeign,         \* messages other users of the connection have caused
    released,         \* how often each resource of the operation was released
    decodes,          \* how often ReadDict ran
    readAfterUnref,   \* `file` was read after its message was released
    pre,              \* err_ptr and dbus_err as they were before the call
    gen_pc,           \* position of Generate64RandomChars
    amount,           \* its local `amount`: random bytes still to read
    token,            \* the characters it has appended through `out`
    source,           \* the entropy source: ready, hit by a signal, or broken
    entropy,          \* the bytes the entropy source hands out, in order
    rs_uri,           \* the `fileUri` AllocAndCopyFIlePath is called with
    rs_reads,         \* the positions of `fileUri` the call has read
    mp_name,          \* dbus_unique_name as MakeUniqueObjectPath finds it
    mp_ret,           \* what MakeUniqueObjectPath returned
    enc_filters,      \* filterList (filterCount is its length)
    enc_out,          \* what AppendOpenFileQueryParams did to the query
    dec_dict,         \* the entries of the results dictionary of a Response
    dec_ret,          \* what ReadResponseParamsSingle returned for it
    clr,              \* the calls of NFD_ClearError made in a row
    handler           \* a DBusSignalSubscriptionHandler used on its own

(* The state of NFD_OpenDialogN and of the bus it talks to. *)
dialogVars == <<pc, result, err_ptr, dbus_err, outPath, handle_obj_path,
                sub_cmd, busRules, busLog, query, reply, portalReply,
                responded, wire, queue, closed, nForeign, released, decodes,
                readAfterUnref, pre>>

(* The state of one call of Generate64RandomChars. *)
genVars == <<gen_pc, amount, token, source, entropy>>

(* The state of the functions examined on their own. *)
(* The argument of one call of AllocAndCopyFIlePath, and what it read. *)
resolverVars == <<rs_uri, rs_reads>>

(* The input and the result of one call of MakeUniqueObjectPath. *)
pathVars == <<mp_name, mp_ret>>

(* The input and the effect of one call of AppendOpenFileQueryParams. *)
encVars == <<enc_filters, enc_out>>

(* The input and the result of one call of ReadResponseParamsSingle. *)
decVars == <<dec_dict, dec_ret>>

unitVars == <<genVars, resolverVars, pathVars, encVars, decVars, clr, handler>>

vars == <<dialogVars, unitVars>>

(* No call of Generate64RandomChars is in progress. *)
GenIdle ==
    /\ gen_pc = "idle"
    /\ amount = 0
    /\ token = <<>>
    /\ source = "ready"
    /\ entropy = <<>>

(* No call of AllocAndCopyFIlePath on its own is in progress. *)
ResolverIdle ==
    /\ rs_uri = <<>>
    /\ rs_reads = {}

(* MakeUniqueObjectPath has not returned: no buffer, no token pointer. *)
NoPath == [done |-> FALSE, path |-> <<>>, handle_token |-> 0, alloc |-> 0]

(* No call of MakeUniqueObjectPath on its own is in progress. *)
PathIdle ==
    /\ mp_name = <<>>
    /\ mp_ret = NoPath

(* The query before any argument is appended. *)
NoArgs ==
    [done |-> FALSE, caller |-> "", Multiple |-> FALSE, ops |-> <<>>,
     args |-> <<>>, scanned |-> <<>>]

(* No call of AppendOpenFileQueryParams on its own is in progress. *)
EncIdle ==
    /\ enc_filters = <<>>
    /\ enc_out = NoArgs

(* ReadResponseParamsSingle has not returned. *)
NotDecoded ==
    [done |-> FALSE, res |-> "none", file |-> [null |-> TRUE, str |-> <<>>],
     err |-> "nullptr"]

(* No call of ReadResponseParamsSingle on its own is in progress. *)
DecIdle ==
    /\ dec_dict = <<>>
    /\ dec_ret = NotDecoded

(* NFD_ClearError has not been called. *)
NoClear == [calls |-> 0, at |-> "", released |-> <<>>]

(* No DBusSignalSubscriptionHandler is examined on its own. *)
NoHandler == [state |-> "none", calls |-> 0, res |-> "none", freed |-> <<>>]

(* Every function examined on its own is idle, except the ones named. *)
IdleExcept(units) ==
    /\ IF "gen" \in units THEN TRUE ELSE GenIdle
    /\ IF "resolver" \in units THEN TRUE ELSE ResolverIdle
    /\ IF "path" \in units THEN TRUE ELSE PathIdle
    /\ IF "enc" \in units THEN TRUE ELSE EncIdle
    /\ IF "dec" \in units THEN TRUE ELSE DecIdle
    /\ clr = NoClear
    /\ IF "handler" \in units THEN TRUE ELSE handler = NoHandler

-----------------------------------------------------------------------------
(* Bounds *)

MaxForeign == 2

-----------------------------------------------------------------------------
(* nfdresult_t *)

NFD_ERROR == "NFD_ERROR"
NFD_OKAY == "NFD_OKAY"
NFD_CANCEL == "NFD_CANCEL"

NULL == "nullptr"

(* The messages NFDi_SetError is called with. *)
E_DICT_NOT_ARRAY == "D-Bus response signal argument is not an array."
E_DE_NOT_STRING == "D-Bus response signal dict entry does not start with a string."
E_DE_MISSING == "D-Bus response signal dict entry is missing one or more arguments."
E_DE_NOT_VARIANT == "D-Bus response signal dict entry value is not a variant."
E_SIG_MISSING == "D-Bus response signal is missing one or more arguments."
E_SIG_NOT_UINT32 == "D-Bus response signal argument is not a uint32."
E_ABRUPT == "D-Bus file dialog interaction was ended abruptly."
E_URI_NOT_ARRAY == "D-Bus response signal URI iter is not an array."
E_URI_NOT_STRING == "D-Bus response signal URI sub iter is not an string."
E_NOT_FILE_URI == "D-Bus freedesktop portal returned a URI that is not a file URI."
E_REPLY_MISSING == "D-Bus reply is missing an argument."
E_REPLY_NOT_PATH == "D-Bus reply is not an object path."
E_NO_REPLY == "D-Bus freedesktop portal did not give us a reply."
(* err_ptr pointing into the transport error buffer: dbus_err.message *)
DBUS_ERR_MESSAGE == "dbus_err.message"
(* A message left in the slot by an earlier failure. *)
E_STALE == "(an earlier error)"

(* Contents of a set DBusError. *)
DE_UNSET == "(unset)"
DE_STALE == "(an earlier transport error)"
DE_ADD_MATCH == "AddMatch failed"
DE_CALL == "OpenFile call failed"

-----------------------------------------------------------------------------
(* Strings are sequences of characters; NUL is the terminator read at and  *)
(* only at the position after the last character.                          *)

NUL == "\\0"

CharAt(s, i) == IF i <= Len(s) THEN s[i] ELSE NUL

FILE_URI_PREFIX == <<"f", "i", "l", "e", ":", "/", "/">>
FILE_URI_PREFIX_LEN == 7

URI_FILE_A == FILE_URI_PREFIX \o <<"/", "a">>
URI_FILE_B == FILE_URI_PREFIX \o <<"/", "b">>
URI_HTTP == <<"h", "t", "t", "p", ":", "/", "/", "a">>
URI_SHORT == <<"f", "i", "l", "e">>

(* A char* : null or pointing at a string. *)
NullPtr == [null |-> TRUE, str |-> <<>>]
Ptr(s) == [null |-> FALSE, str |-> s]

-----------------------------------------------------------------------------
(* D-Bus values as the message iterators show them: a type code, and the   *)
(* number, string or contained values that go with it.                     *)

Val(t, n, s, k) == [type |-> t, num |-> n, str |-> s, kids |-> k]

DBUS_TYPE_INVALID == "INVALID"
DBUS_TYPE_UINT32 == "u"
DBUS_TYPE_STRING == "s"
DBUS_TYPE_OBJECT_PATH == "o"
DBUS_TYPE_ARRAY == "a"
DBUS_TYPE_VARIANT == "v"
DBUS_TYPE_DICT_ENTRY == "e"

U32(n) == Val(DBUS_TYPE_UINT32, n, <<>>, <<>>)
Str(s) == Val(DBUS_TYPE_STRING, 0, s, <<>>)
ObjPath(p) == Val(DBUS_TYPE_OBJECT_PATH, 0, <<p>>, <<>>)
Arr(k) == Val(DBUS_TYPE_ARRAY, 0, <<>>, k)
Variant(v) == Val(DBUS_TYPE_VARIANT, 0, <<>>, <<v>>)
DictEntry(k, v) == Val(DBUS_TYPE_DICT_ENTRY, 0, <<>>, <<k, v>>)

(* dbus_message_iter_get_arg_type of an iterator at position i of `items`  *)
ArgType(items, i) == IF i <= Len(items) THEN items[i].type ELSE DBUS_TYPE_INVALID

(* dbus_message_iter_next: whether there is an element after position i    *)
HasNext(items, i) == i < Len(items)

KEY_URIS == <<"u", "r", "i", "s">>
KEY_OTHER == <<"o", "t", "h", "e", "r">>

-----------------------------------------------------------------------------
(* What a reader returns: the result, `file` as it leaves it, the message  *)
(* it gave NFDi_SetError (NULL: none) and whether ReadDict ran.            *)

Ret(r, f, e, d) == [res |-> r, file |-> f, err |-> e, decoded |-> d]

(* The `uris` callback of ReadResponseParamsSingle (lines 284-297). *)
UrisCallback(uris_iter, file) ==
    IF ArgType(uris_iter, 1) # DBUS_TYPE_ARRAY
    THEN Ret(NFD_ERROR, file, E_URI_NOT_ARRAY, TRUE)
    ELSE LET uris_sub_iter == uris_iter[1].kids
         IN IF ArgType(uris_sub_iter, 1) # DBUS_TYPE_STRING
            THEN Ret(NFD_ERROR, file, E_URI_NOT_STRING, TRUE)
            ELSE Ret(NFD_OKAY, Ptr(uris_sub_iter[1].str), NULL, TRUE)

(* Mutant: a key without a callback is an error. *)
ReadDictImpl_RejectsUnknown(key, iter, file) ==
    IF key = KEY_URIS
    THEN UrisCallback(iter, file)
    ELSE Ret(NFD_ERROR, file, E_DE_MISSING, TRUE)

(* Mutant: the failure of a callback does not stop the decode. *)
ReadDictImpl_IgnoresFailure(key, iter, file) ==
    IF key = KEY_URIS
    THEN [UrisCallback(iter, file) EXCEPT !.res = NFD_OKAY]
    ELSE Ret(NFD_OKAY, file, NULL, TRUE)

(* ReadDictImpl with the one (key, callback) pair the file registers. *)
ReadDictImpl(key, iter, file) ==
    IF key = KEY_URIS
    THEN UrisCallback(iter, file)
    ELSE Ret(NFD_OKAY, file, NULL, TRUE)

(* The loop of ReadDict over the array's elements, from element i. *)
RECURSIVE ReadDictLoop(_, _, _)
ReadDictLoop(sub_iter, i, file) ==
    IF ArgType(sub_iter, i) # DBUS_TYPE_DICT_ENTRY
    THEN Ret(NFD_OKAY, file, NULL, TRUE)
    ELSE LET de_iter == sub_iter[i].kids
         IN IF ArgType(de_iter, 1) # DBUS_TYPE_STRING
            THEN Ret(NFD_ERROR, file, E_DE_NOT_STRING, TRUE)
            ELSE IF ~HasNext(de_iter, 1)
            THEN Ret(NFD_ERROR, file, E_DE_MISSING, TRUE)
            ELSE IF ArgType(de_iter, 2) # DBUS_TYPE_VARIANT
            THEN Ret(NFD_ERROR, file, E_DE_NOT_VARIANT, TRUE)
            ELSE LET r == ReadDictImpl(de_iter[1].str, de_iter[2].kids, file)
                 IN IF r.res = NFD_ERROR
                    THEN r
                    ELSE IF ~HasNext(sub_iter, i)
                    THEN Ret(NFD_OKAY, r.file, NULL, TRUE)
                    ELSE ReadDictLoop(sub_iter, i + 1, r.file)

(* ReadDict on the iterator at position i of the message's arguments. *)
ReadDict(iter, i, file) ==
    IF ArgType(iter, i) # DBUS_TYPE_ARRAY
    THEN Ret(NFD_ERROR, file, E_DICT_NOT_ARRAY, TRUE)
    ELSE ReadDictLoop(iter[i].kids, 1, file)

(* Mutants of ReadResponseParamsSingle. *)
ReadResponseParamsSingle_SilentAbrupt(args, file) ==
    IF Len(args) = 0
    THEN Ret(NFD_ERROR, file, E_SIG_MISSING, FALSE)
    ELSE IF ArgType(args, 1) # DBUS_TYPE_UINT32
    THEN Ret(NFD_ERROR, file, E_SIG_NOT_UINT32, FALSE)
    ELSE IF args[1].num # 0
    THEN IF args[1].num = 1
         THEN Ret(NFD_CANCEL, file, NULL, FALSE)
         ELSE Ret(NFD_ERROR, file, NULL, FALSE)
    ELSE IF ~HasNext(args, 1)
    THEN Ret(NFD_ERROR, file, E_SIG_MISSING, FALSE)
    ELSE ReadDict(args, 2, file)

ReadResponseParamsSingle_CancelIsAbrupt(args, file) ==
    IF Len(args) = 0
    THEN Ret(NFD_ERROR, file, E_SIG_MISSING, FALSE)
    ELSE IF ArgType(args, 1) # DBUS_TYPE_UINT32
    THEN Ret(NFD_ERROR, file, E_SIG_NOT_UINT32, FALSE)
    ELSE IF args[1].num # 0
    THEN Ret(NFD_ERROR, file, E_ABRUPT, FALSE)
    ELSE IF ~HasNext(args, 1)
    THEN Ret(NFD_ERROR, file, E_SIG_MISSING, FALSE)
    ELSE ReadDict(args, 2, file)

(* Mutant: any non-zero status is reported with the message of a missing  *)
(* argument.                                                               *)
ReadResponseParamsSingle_AbruptAsMissing(args, file) ==
    IF Len(args) = 0
    THEN Ret(NFD_ERROR, file, E_SIG_MISSING, FALSE)
    ELSE IF ArgType(args, 1) # DBUS_TYPE_UINT32
    THEN Ret(NFD_ERROR, file, E_SIG_NOT_UINT32, FALSE)
    ELSE IF args[1].num # 0
    THEN IF args[1].num = 1
         THEN Ret(NFD_CANCEL, file, NULL, FALSE)
         ELSE Ret(NFD_ERROR, file, E_SIG_MISSING, FALSE)
    ELSE IF ~HasNext(args, 1)
    THEN Ret(NFD_ERROR, file, E_SIG_MISSING, FALSE)
    ELSE ReadDict(args, 2, file)

(* ReadResponseParamsSingle(msg, file), `args` being msg's arguments. *)
ReadResponseParamsSingle(args, file) ==
    IF Len(args) = 0
    THEN Ret(NFD_ERROR, file, E_SIG_MISSING, FALSE)
    ELSE IF ArgType(args, 1) # DBUS_TYPE_UINT32
    THEN Ret(NFD_ERROR, file, E_SIG_NOT_UINT32, FALSE)
    ELSE IF args[1].num # 0
    THEN IF args[1].num = 1
         THEN Ret(NFD_CANCEL, file, NULL, FALSE)
         ELSE Ret(NFD_ERROR, file, E_ABRUPT, FALSE)
    ELSE IF ~HasNext(args, 1)
    THEN Ret(NFD_ERROR, file, E_SIG_MISSING, FALSE)
    ELSE ReadDict(args, 2, file)

-----------------------------------------------------------------------------
(* Locator Resolver *)

(* Mutant: the prefix loop stops one character early. *)
RECURSIVE PrefixMismatch_StopsEarly(_, _)
PrefixMismatch_StopsEarly(fileUri, i) ==
    IF i > FILE_URI_PREFIX_LEN - 1
    THEN 0
    ELSE IF FILE_URI_PREFIX[i] # CharAt(fileUri, i)
    THEN i
    ELSE PrefixMismatch_StopsEarly(fileUri, i + 1)

(* The prefix loop of AllocAndCopyFIlePath from prefix position i: the     *)
(* first position where the prefix and the input differ, 0 when none does. *)
RECURSIVE PrefixMismatch(_, _)
PrefixMismatch(fileUri, i) ==
    IF i > FILE_URI_PREFIX_LEN
    THEN 0
    ELSE IF FILE_URI_PREFIX[i] # CharAt(fileUri, i)
    THEN i
    ELSE PrefixMismatch(fileUri, i + 1)

(* What AllocAndCopyFIlePath returns: the result, outPath, the error set.  *)
Resolved(r, o, e) == [res |-> r, out |-> o, err |-> e]

(* A path NFDi_Malloc returned during this call. *)
Fresh(s) == [str |-> s, fresh |-> TRUE]

(* Mutant: the resolver stores its buffer before checking the prefix. *)
AllocAndCopyFIlePath_WritesFirst(fileUri, out) ==
    IF PrefixMismatch(fileUri, 1) # 0
    THEN Resolved(NFD_ERROR, Fresh(fileUri), E_NOT_FILE_URI)
    ELSE Resolved(NFD_OKAY,
                  Fresh(SubSeq(fileUri, FILE_URI_PREFIX_LEN + 1, Len(fileUri))),
                  NULL)

AllocAndCopyFIlePath(fileUri, out) ==
    IF PrefixMismatch(fileUri, 1) # 0
    THEN Resolved(NFD_ERROR, out, E_NOT_FILE_URI)
    ELSE Resolved(NFD_OKAY,
                  Fresh(SubSeq(fileUri, FILE_URI_PREFIX_LEN + 1, Len(fileUri))),
                  NULL)

-----------------------------------------------------------------------------
(* Address Builder and Subscription Manager *)

(* dbus_unique_name, as NFD_Init got it from the bus. *)
dbus_unique_name == ":1.7"

(* The address MakeUniqueObjectPath built for this call, and the address   *)
(* a portal that does not follow the guess puts the request at.            *)
GuessedPath == "/org/freedesktop/portal/desktop/request/1_7/TOKEN"
RedirectedPath == "/org/freedesktop/portal/desktop/request/1_7/t"
(* The address of a request some other user of the connection made. *)
ForeignPath == "/org/freedesktop/portal/desktop/request/1_7/other"

STR_RESPONSE_SUBSCRIPTION_PATH_1 ==
    "type='signal',sender='org.freedesktop.portal.Desktop',path='"
STR_RESPONSE_SUBSCRIPTION_PATH_2 ==
    "',interface='org.freedesktop.portal.Request',member='Response',destination='"
STR_RESPONSE_SUBSCRIPTION_PATH_3 == "'"

(* The match rule, as the pieces it is concatenated from. *)
MakeResponseSubscriptionPath(handle_path, unique_name) ==
    <<STR_RESPONSE_SUBSCRIPTION_PATH_1, handle_path,
      STR_RESPONSE_SUBSCRIPTION_PATH_2, unique_name,
      STR_RESPONSE_SUBSCRIPTION_PATH_3>>

(* The manager with the bus's view of it. *)
SubState(c, r, l) == [sub_cmd |-> c, rules |-> r, log |-> l]

BusOp(o, rule, ok) == [op |-> o, rule |-> rule, ok |-> ok]

(* Mutant: Unsubscribe forgets the stored string without asking the bus to *)
(* remove the rule.                                                        *)
Unsubscribe_KeepsRule(s) == SubState(NullPtr, s.rules, s.log)

(* Unsubscribe(): dbus_bus_remove_match succeeds when the bus holds the    *)
(* rule; its error is freed unread.                                        *)
Unsubscribe(s) ==
    SubState(NullPtr,
             s.rules \ {s.sub_cmd.str},
             Append(s.log, BusOp("remove", s.sub_cmd.str, s.sub_cmd.str \in s.rules)))

(* What Subscribe returns and leaves behind. *)
Subscribed(s, r, e, de) == [sub |-> s, res |-> r, err_ptr |-> e, dbus_err |-> de]

(* Mutant: Subscribe also fails when the remove-match of the rule it       *)
(* replaces failed.                                                        *)
Subscribe_ReportsRemoveFailure(s, handle_path, addOk, e, de) ==
    LET s1 == IF ~s.sub_cmd.null THEN Unsubscribe(s) ELSE s
        rule == MakeResponseSubscriptionPath(handle_path, dbus_unique_name)
        s2 == SubState(Ptr(rule),
                       IF addOk THEN s1.rules \cup {rule} ELSE s1.rules,
                       Append(s1.log, BusOp("add", rule, addOk)))
    IN IF addOk /\ (s.sub_cmd.null \/ s.sub_cmd.str \in s.rules)
       THEN Subscribed(s2, NFD_OKAY, e, de)
       ELSE Subscribed(s2, NFD_ERROR, DBUS_ERR_MESSAGE, DE_ADD_MATCH)

(* Subscribe(handle_path), addOk being the outcome of dbus_bus_add_match.  *)
Subscribe(s, handle_path, addOk, e, de) ==
    LET s1 == IF ~s.sub_cmd.null THEN Unsubscribe(s) ELSE s
        rule == MakeResponseSubscriptionPath(handle_path, dbus_unique_name)
        s2 == SubState(Ptr(rule),
                       IF addOk THEN s1.rules \cup {rule} ELSE s1.rules,
                       Append(s1.log, BusOp("add", rule, addOk)))
    IN IF addOk
       THEN Subscribed(s2, NFD_OKAY, e, de)
       ELSE Subscribed(s2, NFD_ERROR, DBUS_ERR_MESSAGE, DE_ADD_MATCH)

(* Mutant: the manager's destructor forgets to unsubscribe. *)
SubscriptionHandlerDtor_Leaks(s) == s

(* ~DBusSignalSubscriptionHandler() *)
SubscriptionHandlerDtor(s) == IF ~s.sub_cmd.null THEN Unsubscribe(s) ELSE s

-----------------------------------------------------------------------------
(* Messages on the connection *)

Msg(t, i, m, p, a) == [type |-> t, interface |-> i, member |-> m, path |-> p, args |-> a]

ResponseSignal(p, a) == Msg("signal", "org.freedesktop.portal.Request", "Response", p, a)

(* Mutant: the wait loop also compares the signal's path with the address  *)
(* the reply named.                                                        *)
IsResponseSignal_AtRepliedPath(msg) ==
    /\ msg.type = "signal"
    /\ msg.interface = "org.freedesktop.portal.Request"
    /\ msg.member = "Response"
    /\ msg.path = portalReply.args[1].str[1]

(* dbus_message_is_signal(msg, "org.freedesktop.portal.Request", "Response") *)
IsResponseSignal(msg) ==
    /\ msg.type = "signal"
    /\ msg.interface = "org.freedesktop.portal.Request"
    /\ msg.member = "Response"

(* The bus routes a signal to the connection when one of its rules names   *)
(* the signal's path.                                                      *)
Routed(msg, rules) ==
    MakeResponseSubscriptionPath(msg.path, dbus_unique_name) \in rules

Dict(entries) == Arr(entries)
UrisEntry(uris) == DictEntry(Str(KEY_URIS), Variant(Arr(uris)))
OtherEntry == DictEntry(Str(KEY_OTHER), Variant(U32(5)))

(* The argument lists a Response signal may carry. *)
ResponseBodies ==
    { <<>>,
      <<Str(KEY_OTHER)>>,
      <<U32(1), Dict(<<UrisEntry(<<Str(URI_FILE_A)>>)>>)>>,
      <<U32(2), Dict(<<UrisEntry(<<Str(URI_FILE_A)>>)>>)>>,
      <<U32(0)>>,
      <<U32(0), Str(KEY_URIS)>>,
      <<U32(0), Dict(<<>>)>>,
      <<U32(0), Dict(<<OtherEntry>>)>>,
      <<U32(0), Dict(<<UrisEntry(<<>>)>>)>>,
      <<U32(0), Dict(<<UrisEntry(<<Str(URI_FILE_A)>>)>>)>>,
      <<U32(0), Dict(<<OtherEntry, UrisEntry(<<Str(URI_FILE_A), Str(URI_FILE_B)>>)>>)>>,
      <<U32(0), Dict(<<UrisEntry(<<Str(URI_HTTP)>>)>>)>>,
      <<U32(0), Dict(<<UrisEntry(<<Str(URI_SHORT)>>)>>)>>,
      <<U32(0), Dict(<<DictEntry(Str(KEY_URIS), Variant(Str(URI_FILE_A)))>>)>>,
      <<U32(0), Dict(<<DictEntry(U32(5), Variant(U32(5)))>>)>>,
      <<U32(0), Dict(<<UrisEntry(<<Str(URI_FILE_A)>>), DictEntry(Str(KEY_OTHER), U32(5))>>)>> }

(* What other users of the shared connection receive through it. *)
ForeignMessages ==
    { Msg("signal", "org.freedesktop.DBus", "NameAcquired", "/org/freedesktop/DBus", <<>>),
      ResponseSignal(ForeignPath, <<U32(1), Dict(<<>>)>>),
      ResponseSignal(ForeignPath, <<U32(0), Dict(<<UrisEntry(<<Str(URI_FILE_B)>>)>>)>>) }

(* The replies to the OpenFile call: none yet, an error, or a method       *)
(* return with these arguments.                                            *)
NoReply == [kind |-> "none", args |-> <<>>]
PortalReplies ==
    { [kind |-> "error", args |-> <<>>],
      [kind |-> "reply", args |-> <<>>],
      [kind |-> "reply", args |-> <<Str(KEY_OTHER)>>],
      [kind |-> "reply", args |-> <<ObjPath(GuessedPath)>>],
      [kind |-> "reply", args |-> <<ObjPath(RedirectedPath)>>] }

(* The portal took the request and answered with the request's address. *)
PortalAccepted ==
    /\ portalReply.kind = "reply"
    /\ ArgType(portalReply.args, 1) = DBUS_TYPE_OBJECT_PATH

RepliedPath == portalReply.args[1].str[1]

(* Bytes a read through `file` may see.  The string belongs to the message *)
(* it was taken from; once that message is released the memory may have    *)
(* been reused.                                                            *)
ReusedMemory == { <<>>, URI_FILE_B }
FileBytes(file, ownerLive) ==
    IF ownerLive THEN {file.str} ELSE {file.str} \cup ReusedMemory

-----------------------------------------------------------------------------
(* The state before NFD_OpenDialogN is called: NFD_Init has connected, the *)
(* error slot is empty or holds what an earlier failure left, the shared   *)
(* connection's queue is empty.                                            *)

OldPath == [str |-> <<"o", "l", "d">>, fresh |-> FALSE]

ErrorStatesBefore ==
    { [err_ptr |-> NULL, dbus_err |-> DE_UNSET],
      [err_ptr |-> E_STALE, dbus_err |-> DE_UNSET],
      [err_ptr |-> DBUS_ERR_MESSAGE, dbus_err |-> DE_STALE] }

DialogInit ==
    /\ pc = "idle"
    /\ result = "none"
    /\ pre \in ErrorStatesBefore
    /\ err_ptr = pre.err_ptr
    /\ dbus_err = pre.dbus_err
    /\ outPath = OldPath
    /\ handle_obj_path = NullPtr
    /\ sub_cmd = NullPtr
    /\ busRules = {}
    /\ busLog = <<>>
    /\ query = "none"
    /\ reply = "none"
    /\ portalReply = NoReply
    /\ responded = FALSE
    /\ wire = <<>>
    /\ queue = <<>>
    /\ closed = FALSE
    /\ nForeign = 0
    /\ released = [path |-> 0, query |-> 0, reply |-> 0, msg |-> 0]
    /\ decodes = 0
    /\ readAfterUnref = FALSE

Init ==
    /\ DialogInit
    /\ IdleExcept({})

CurSub == SubState(sub_cmd, busRules, busLog)

(* dbus_bus_add_match can fail; on a lost connection it does. *)
AddMatchOutcomes == IF closed THEN {FALSE} ELSE BOOLEAN

(* A return of NFD_OpenDialogN with the scope guards run in reverse order  *)
(* of declaration: reply_guard (r: it was constructed), query_guard,       *)
(* signal_sub, and the Free_Guard of handle_obj_path.                      *)
Return(res, e, de, out, s, r) ==
    LET d == SubscriptionHandlerDtor(s)
    IN /\ pc' = "done"
       /\ result' = res
       /\ err_ptr' = e
       /\ dbus_err' = de
       /\ outPath' = out
       /\ sub_cmd' = d.sub_cmd
       /\ busRules' = d.rules
       /\ busLog' = d.log
       /\ query' = IF query = "live" THEN "released" ELSE query
       /\ reply' = IF r THEN "released" ELSE reply
       /\ released' = [released EXCEPT !.path = @ + 1,
                                       !.query = IF query = "live" THEN @ + 1 ELSE @,
                                       !.reply = IF r THEN @ + 1 ELSE @]

(* A blocking round trip on the connection reads what has arrived. *)
ReadArrived ==
    /\ queue' = queue \o wire
    /\ wire' = <<>>

(* Mutant: the result of the first Subscribe is dropped, as that of the    *)
(* second is, and the call is sent whatever it was.                        *)
Begin_IgnoresSubscribe ==
    /\ pc = "idle"
    /\ handle_obj_path' = Ptr(GuessedPath)
    /\ \E addOk \in AddMatchOutcomes :
         LET sub == Subscribe(CurSub, GuessedPath, addOk, err_ptr, dbus_err)
         IN /\ pc' = "call"
            /\ sub_cmd' = sub.sub.sub_cmd
            /\ busRules' = sub.sub.rules
            /\ busLog' = sub.sub.log
            /\ err_ptr' = sub.err_ptr
            /\ dbus_err' = sub.dbus_err
            /\ UNCHANGED <<result, outPath, query, reply, released>>
    /\ ReadArrived
    /\ UNCHANGED <<portalReply, responded, closed, nForeign, decodes, readAfterUnref, pre, unitVars>>

(* Lines 814-825: build the guessed address, subscribe to it. *)
Begin ==
    /\ pc = "idle"
    /\ handle_obj_path' = Ptr(GuessedPath)
    /\ \E addOk \in AddMatchOutcomes :
         LET sub == Subscribe(CurSub, GuessedPath, addOk, err_ptr, dbus_err)
         IN IF sub.res # NFD_OKAY
            THEN Return(sub.res, sub.err_ptr, sub.dbus_err, outPath, sub.sub, FALSE)
            ELSE /\ pc' = "call"
                 /\ sub_cmd' = sub.sub.sub_cmd
                 /\ busRules' = sub.sub.rules
                 /\ busLog' = sub.sub.log
                 /\ UNCHANGED <<result, err_ptr, dbus_err, outPath, query, reply, released>>
    /\ ReadArrived
    /\ UNCHANGED <<portalReply, responded, closed, nForeign, decodes, readAfterUnref, pre, unitVars>>

(* Lines 830-838: create the call message and send it; the call then       *)
(* blocks.  The portal's answer is decided when the request reaches it.    *)
SendCall ==
    /\ pc = "call"
    /\ pc' = "sent"
    /\ query' = "live"
    /\ portalReply' \in (IF closed THEN {NoReply} ELSE PortalReplies)
    /\ UNCHANGED <<result, err_ptr, dbus_err, outPath, handle_obj_path, sub_cmd,
                   busRules, busLog, reply, responded, wire, queue, closed,
                   nForeign, released, decodes, readAfterUnref, pre, unitVars>>

(* Lines 838-865: the call returns; check the reply and subscribe to the   *)
(* address it names when that is not the guessed one.                      *)
RecvReply ==
    /\ pc = "sent"
    /\ portalReply.kind # "none" \/ closed
    /\ ReadArrived
    /\ IF closed \/ portalReply.kind = "error"
       THEN Return(NFD_ERROR, DBUS_ERR_MESSAGE, DE_CALL, outPath, CurSub, FALSE)
       ELSE IF Len(portalReply.args) = 0
       THEN Return(NFD_ERROR, E_REPLY_MISSING, dbus_err, outPath, CurSub, TRUE)
       ELSE IF ArgType(portalReply.args, 1) # DBUS_TYPE_OBJECT_PATH
       THEN Return(NFD_ERROR, E_REPLY_NOT_PATH, dbus_err, outPath, CurSub, TRUE)
       ELSE LET path == portalReply.args[1].str[1]
            IN /\ pc' = "pop"
               /\ reply' = "live"
               /\ IF path # handle_obj_path.str
                  THEN \E addOk \in AddMatchOutcomes :
                         LET sub == Subscribe(CurSub, path, addOk, err_ptr, dbus_err)
                         IN /\ sub_cmd' = sub.sub.sub_cmd
                            /\ busRules' = sub.sub.rules
                            /\ busLog' = sub.sub.log
                            /\ err_ptr' = sub.err_ptr
                            /\ dbus_err' = sub.dbus_err
                  ELSE UNCHANGED <<sub_cmd, busRules, busLog, err_ptr, dbus_err>>
               /\ UNCHANGED <<result, outPath, query, released>>
    /\ UNCHANGED <<handle_obj_path, portalReply, responded, closed, nForeign,
                   decodes, readAfterUnref, pre, unitVars>>

(* Lines 871-897, a message in the queue: pop it; drop it unless it is a   *)
(* Response signal; otherwise read it, and with a URI in hand resolve it   *)
(* and return.  msg_guard releases the message when the loop body is left, *)
(* which is before AllocAndCopyFIlePath reads `file`.                      *)
PopMessage ==
    /\ pc = "pop"
    /\ queue # <<>>
    /\ queue' = Tail(queue)
    /\ LET msg == Head(queue)
           rel == [released EXCEPT !.msg = @ + 1]
       IN IF ~IsResponseSignal(msg)
          THEN /\ released' = rel
               /\ UNCHANGED <<pc, result, err_ptr, dbus_err, outPath, sub_cmd, busRules,
                              busLog, query, reply, decodes, readAfterUnref>>
          ELSE LET r == ReadResponseParamsSingle(msg.args, NullPtr)
               IN /\ decodes' = IF r.decoded THEN decodes + 1 ELSE decodes
                  /\ IF r.res # NFD_OKAY
                     THEN /\ Return(r.res, IF r.err = NULL THEN err_ptr ELSE r.err,
                                    dbus_err, outPath, CurSub, TRUE)
                          /\ UNCHANGED readAfterUnref
                     ELSE IF r.file.null
                     THEN /\ pc' = "rw"
                          /\ released' = rel
                          /\ UNCHANGED <<result, err_ptr, dbus_err, outPath, sub_cmd,
                                         busRules, busLog, query, reply, readAfterUnref>>
                     ELSE \E bytes \in FileBytes(r.file, FALSE) :
                            LET a == AllocAndCopyFIlePath(bytes, outPath)
                            IN /\ Return(a.res, IF a.err = NULL THEN err_ptr ELSE a.err,
                                         dbus_err, a.out, CurSub, TRUE)
                               /\ readAfterUnref' = TRUE
    /\ UNCHANGED <<handle_obj_path, portalReply, responded, wire, closed, nForeign, pre, unitVars>>

(* Lines 871-885, the queue is empty: `file` is null, go on to             *)
(* dbus_connection_read_write.                                             *)
PopNone ==
    /\ pc = "pop"
    /\ queue = <<>>
    /\ pc' = "rw"
    /\ UNCHANGED <<result, err_ptr, dbus_err, outPath, handle_obj_path, sub_cmd,
                   busRules, busLog, query, reply, portalReply, responded, wire,
                   queue, closed, nForeign, released, decodes, readAfterUnref, pre, unitVars>>

(* Lines 885-890: dbus_connection_read_write(dbus_conn, -1) blocks until   *)
(* the socket has something, reads some of it into the queue, and returns  *)
(* whether the connection is still open; when it is not, the loop ends     *)
(* with `file` null.                                                       *)
ReadWrite ==
    /\ pc = "rw"
    /\ wire # <<>> \/ closed
    /\ \E k \in (IF wire = <<>> THEN {0} ELSE 1..Len(wire)) :
         /\ queue' = queue \o SubSeq(wire, 1, k)
         /\ wire' = SubSeq(wire, k + 1, Len(wire))
         /\ IF closed /\ k = Len(wire)
            THEN Return(NFD_ERROR, E_NO_REPLY, dbus_err, outPath, CurSub, TRUE)
            ELSE /\ pc' = "pop"
                 /\ UNCHANGED <<result, err_ptr, dbus_err, outPath, sub_cmd, busRules,
                                busLog, query, reply, released>>
    /\ UNCHANGED <<handle_obj_path, portalReply, responded, closed, nForeign,
                   decodes, readAfterUnref, pre, unitVars>>

-----------------------------------------------------------------------------
(* The environment *)

(* The portal emits the request's one Response signal at the address it    *)
(* named in its reply; the bus routes it by the rules it holds then.       *)
PortalRespond ==
    /\ pc \in {"sent", "pop", "rw"}
    /\ PortalAccepted
    /\ ~responded
    /\ ~closed
    /\ responded' = TRUE
    /\ \E body \in ResponseBodies :
         LET msg == ResponseSignal(RepliedPath, body)
         IN wire' = IF Routed(msg, busRules) THEN Append(wire, msg) ELSE wire
    /\ UNCHANGED <<pc, result, err_ptr, dbus_err, outPath, handle_obj_path, sub_cmd,
                   busRules, busLog, query, reply, portalReply, queue, closed,
                   nForeign, released, decodes, readAfterUnref, pre, unitVars>>

(* A message arrives for another user of the shared connection. *)
ForeignTraffic ==
    /\ pc # "done"
    /\ ~closed
    /\ nForeign < MaxForeign
    /\ nForeign' = nForeign + 1
    /\ \E msg \in ForeignMessages : wire' = Append(wire, msg)
    /\ UNCHANGED <<pc, result, err_ptr, dbus_err, outPath, handle_obj_path, sub_cmd,
                   busRules, busLog, query, reply, portalReply, responded, queue,
                   closed, released, decodes, readAfterUnref, pre, unitVars>>

(* The connection is lost; the bus drops the connection's match rules. *)
Disconnect ==
    /\ pc # "done"
    /\ ~closed
    /\ closed' = TRUE
    /\ busRules' = {}
    /\ UNCHANGED <<pc, result, err_ptr, dbus_err, outPath, handle_obj_path, sub_cmd,
                   busLog, query, reply, portalReply, responded, wire, queue,
                   nForeign, released, decodes, readAfterUnref, pre, unitVars>>

Next ==
    \/ Begin
    \/ SendCall
    \/ RecvReply
    \/ PopMessage
    \/ PopNone
    \/ ReadWrite
    \/ PortalRespond
    \/ ForeignTraffic
    \/ Disconnect

Spec == Init /\ [][Next]_vars

(* The operation's own steps run whenever they can (one thread, nothing    *)
(* else to schedule), and the portal does emit the Response it owes.       *)
Step == Begin \/ SendCall \/ RecvReply \/ PopMessage \/ PopNone \/ ReadWrite

LiveSpec == Spec /\ WF_vars(Step) /\ WF_vars(PortalRespond)

-----------------------------------------------------------------------------
(* Vocabulary of the properties *)

(* The message the error slot points at. *)
ErrorMessage == IF err_ptr = DBUS_ERR_MESSAGE THEN dbus_err ELSE err_ptr

(* This step pops the head of the queue in the wait loop, and the head is  *)
(* a Response signal of the Request interface.                             *)
TakesResponse ==
    /\ pc = "pop"
    /\ queue # <<>>
    /\ queue' = Tail(queue)
    /\ Head(queue).type = "signal"
    /\ Head(queue).interface = "org.freedesktop.portal.Request"
    /\ Head(queue).member = "Response"

(* The status a Response signal carries, when it carries one. *)
HasStatus(msg, status) ==
    /\ ArgType(msg.args, 1) = DBUS_TYPE_UINT32
    /\ msg.args[1].num = status

(* The results argument is a dictionary. *)
HasResults(msg) == ArgType(msg.args, 2) = DBUS_TYPE_ARRAY

IsUrisEntry(entry) ==
    /\ entry.type = DBUS_TYPE_DICT_ENTRY
    /\ ArgType(entry.kids, 1) = DBUS_TYPE_STRING
    /\ entry.kids[1].str = KEY_URIS

(* The results dictionary has no `uris` entry, or one whose array is empty *)
LacksUri(msg) ==
    LET entries == msg.args[2].kids
    IN \/ \A i \in 1..Len(entries) : ~IsUrisEntry(entries[i])
       \/ \E i \in 1..Len(entries) :
            /\ IsUrisEntry(entries[i])
            /\ entries[i].kids[2] = Variant(Arr(<<>>))

(* The reply named the request's address: the guessed one (scenario A) or  *)
(* another (scenario B).                                                   *)
ScenarioA == PortalAccepted /\ RepliedPath = GuessedPath
ScenarioB == PortalAccepted /\ RepliedPath # GuessedPath

Rule(path) == MakeResponseSubscriptionPath(path, dbus_unique_name)

-----------------------------------------------------------------------------
(* C1: NFD_OpenDialogN writes *outPath only where it returns NFD_OKAY:     *)
(* while it runs and after it has returned NFD_CANCEL or NFD_ERROR,        *)
(* *outPath has the value it had before the call; after NFD_OKAY it is a   *)
(* path allocated during the call.                                         *)
C1_OutPathOnlyOnOkay ==
    /\ result # NFD_OKAY => outPath = OldPath
    /\ result = NFD_OKAY => outPath.fresh

C1_Witness ==
    /\ result = NFD_OKAY
    /\ outPath = Fresh(<<"/", "a">>)

(* C2: every return of NFD_ERROR leaves the error slot pointing at a       *)
(* message set during the call: it is not null and is not what an earlier  *)
(* failure had left there.                                                 *)
C2_ErrorSetOnFailure ==
    result = NFD_ERROR =>
        /\ err_ptr # NULL
        /\ ErrorMessage \notin {E_STALE, DE_STALE, DE_UNSET}

C2_Witness ==
    /\ result = NFD_ERROR
    /\ pre.err_ptr = NULL
    /\ err_ptr = E_ABRUPT

(* C3: taking a Response signal with status 1 ends the operation with      *)
(* NFD_CANCEL; the results dictionary is not decoded, *outPath is not      *)
(* written and the error slot and buffer keep the values they had when the *)
(* signal was taken.                                                       *)
C3_CancelShortCircuits ==
    [][ (TakesResponse /\ HasStatus(Head(queue), 1)) =>
            /\ pc' = "done"
            /\ result' = NFD_CANCEL
            /\ decodes' = decodes
            /\ outPath' = outPath
            /\ err_ptr' = err_ptr
            /\ dbus_err' = dbus_err ]_vars

C3_Witness ==
    /\ result = NFD_CANCEL
    /\ decodes = 0
    /\ outPath = OldPath
    /\ err_ptr = pre.err_ptr

(* C4, as claimed: taking a Response signal with status 0 whose results    *)
(* dictionary has no `uris` entry, or an empty `uris` array, ends the      *)
(* operation with NFD_ERROR and the error slot set.                        *)
C4_MissingUriFails ==
    [][ (/\ TakesResponse
         /\ HasStatus(Head(queue), 0)
         /\ HasResults(Head(queue))
         /\ LacksUri(Head(queue))) =>
            /\ pc' = "done"
            /\ result' = NFD_ERROR
            /\ err_ptr' # NULL ]_vars

(* The portal's Response signal has reached the connection: it is among   *)
(* the messages routed to it or in its queue.                              *)
ResponseDelivered ==
    /\ PortalAccepted
    /\ \E i \in 1..Len(queue \o wire) :
         LET msg == (queue \o wire)[i]
         IN /\ msg.type = "signal"
            /\ msg.interface = "org.freedesktop.portal.Request"
            /\ msg.member = "Response"
            /\ msg.path = RepliedPath

(* C5, as claimed: once the call is sent and the portal's Response signal  *)
(* has been delivered to the connection, the operation eventually returns. *)
C5_EventuallyReturns == (pc \in {"sent", "pop", "rw"} /\ ResponseDelivered) ~> (pc = "done")

(* C6, as claimed: in scenario B a Response signal whose path is not the   *)
(* address the reply named does not determine the outcome: the wait loop   *)
(* drops it and goes on.                                                   *)
C6_OnlyRepliedPathTaken ==
    [][ (TakesResponse /\ ScenarioB /\ Head(queue).path # RepliedPath) =>
            /\ pc' = "pop"
            /\ result' = "none" ]_vars

(* C6, amended: in scenario B the manager's rule names the address the     *)
(* reply named and the bus holds no other rule of the operation, but the   *)
(* wait loop compares no path: whatever path the first Response signal     *)
(* popped carries, that signal is read and decides what happens next.      *)
C6_FirstResponseDecides ==
    [][ (TakesResponse /\ ScenarioB) =>
            LET r == ReadResponseParamsSingle(Head(queue).args, NullPtr)
            IN /\ sub_cmd = Ptr(Rule(RepliedPath))
               /\ busRules \subseteq {Rule(RepliedPath)}
               /\ r.res # NFD_OKAY => pc' = "done" /\ result' = r.res
               /\ (r.res = NFD_OKAY /\ r.file.null) => pc' = "rw"
               /\ (r.res = NFD_OKAY /\ ~r.file.null) =>
                      pc' = "done" /\ result' \in {NFD_OKAY, NFD_ERROR} ]_vars

(* The portal has not emitted its Response, so the signal that ended the   *)
(* operation came at another address.                                      *)
C6_Witness ==
    /\ ScenarioB
    /\ ~responded
    /\ result = NFD_CANCEL

(* C7, as claimed: in scenario B, when the wait begins one more Subscribe  *)
(* has been made, it removed the rule of the guessed address before adding *)
(* the rule of the returned one, and the bus holds exactly the rule of the *)
(* returned address.                                                       *)
C7_ReplacedBeforeWaiting ==
    (pc \in {"pop", "rw"} /\ ScenarioB /\ ~closed) =>
        /\ Len(busLog) = 3
        /\ busLog[1] = BusOp("add", Rule(GuessedPath), TRUE)
        /\ busLog[2] = BusOp("remove", Rule(GuessedPath), TRUE)
        /\ busLog[3].op = "add" /\ busLog[3].rule = Rule(RepliedPath)
        /\ busRules = {Rule(RepliedPath)}

(* C8, as claimed: in scenario A one add-match and no remove-match is made *)
(* before the operation ends, and when the first Response signal has       *)
(* status 0 and a `uris` array whose first element starts with file://,    *)
(* the operation returns NFD_OKAY with that element less the prefix.       *)
C8_ScenarioAResolves ==
    [][ (TakesResponse /\ ScenarioA /\ decodes = 0) =>
            LET r == ReadResponseParamsSingle(Head(queue).args, NullPtr)
            IN /\ busLog = <<BusOp("add", Rule(GuessedPath), TRUE)>>
               /\ (/\ r.res = NFD_OKAY
                   /\ ~r.file.null
                   /\ PrefixMismatch(r.file.str, 1) = 0) =>
                      /\ result' = NFD_OKAY
                      /\ outPath' = Fresh(SubSeq(r.file.str, FILE_URI_PREFIX_LEN + 1,
                                                 Len(r.file.str))) ]_vars

(* C9, as claimed: once a Subscribe of the operation has failed, the       *)
(* operation does not wait for a signal and returns NFD_ERROR.             *)
C9_SubscribeFailureIsFatal ==
    (\E i \in 1..Len(busLog) : busLog[i].op = "add" /\ ~busLog[i].ok) =>
        /\ pc \notin {"pop", "rw"}
        /\ pc = "done" => result = NFD_ERROR

(* C10: when NFD_OpenDialogN has returned, the address buffer has been     *)
(* freed once, the call message and the reply message, where they exist,   *)
(* have each been released once, the manager holds no rule string, the bus *)
(* holds no rule of the operation, and for each rule added successfully    *)
(* one remove-match was made after it.                                     *)
C10_CleanupOnEveryExit ==
    pc = "done" =>
        /\ released.path = 1
        /\ query # "live" /\ reply # "live"
        /\ released.query = (IF busLog[1].ok THEN 1 ELSE 0)
        /\ released.reply = (IF reply = "released" THEN 1 ELSE 0)
        /\ (portalReply.kind = "reply" /\ ~closed) => reply = "released"
        /\ sub_cmd.null
        /\ busRules = {}
        /\ \A i \in 1..Len(busLog) :
             (busLog[i].op = "add" /\ busLog[i].ok) =>
                 Cardinality({j \in (i + 1)..Len(busLog) :
                                 /\ busLog[j].op = "remove"
                                 /\ busLog[j].rule = busLog[i].rule}) = 1

C10_Witness ==
    /\ result = NFD_OKAY
    /\ ScenarioB
    /\ Len(busLog) = 4
    /\ busLog[4] = BusOp("remove", Rule(RedirectedPath), TRUE)
    /\ released.path = 1 /\ released.query = 1 /\ released.reply = 1

(* The messages the readers of a reply or a Response signal set for a      *)
(* malformed message.                                                      *)
MalformedMessages ==
    { E_DICT_NOT_ARRAY, E_DE_NOT_STRING, E_DE_MISSING, E_DE_NOT_VARIANT,
      E_SIG_MISSING, E_SIG_NOT_UINT32, E_URI_NOT_ARRAY, E_URI_NOT_STRING,
      E_REPLY_MISSING, E_REPLY_NOT_PATH }

(* C11: taking a Response signal whose status is neither 0 nor 1 ends the  *)
(* operation with NFD_ERROR; the results dictionary is not decoded and the *)
(* error slot points at the 'ended abruptly' message, which is none of the *)
(* messages for a malformed message and is not null (cancellation sets     *)
(* none).                                                                  *)
C11_AbruptStatusFails ==
    [][ (/\ TakesResponse
         /\ ArgType(Head(queue).args, 1) = DBUS_TYPE_UINT32
         /\ Head(queue).args[1].num \notin {0, 1}) =>
            /\ pc' = "done"
            /\ result' = NFD_ERROR
            /\ decodes' = decodes
            /\ err_ptr' = E_ABRUPT
            /\ err_ptr' \notin MalformedMessages \cup {NULL} ]_vars

C11_Witness ==
    /\ result = NFD_ERROR
    /\ err_ptr = E_ABRUPT
    /\ decodes = 0
    /\ responded

-----------------------------------------------------------------------------
(* Generate64RandomChars.                                                  *)

(* `size_t amount = 32`: the random bytes one call asks for. *)
RANDOM_BYTES == 32

(* The ASCII characters from 'A' on, so that 'A' + n is CharFromA(n). *)
ASCII_FROM_A ==
    << "A", "B", "C", "D", "E", "F", "G", "H", "I", "J", "K", "L", "M",
       "N", "O", "P", "Q", "R", "S", "T", "U", "V", "W", "X", "Y", "Z",
       "[", "\\", "]", "^", "_" >>

CharFromA(n) == ASCII_FROM_A[n + 1]

(* Mutant: the low character is offset once more. *)
EncodeByte_OffsetTwice(byte) ==
    << CharFromA((byte % 16) + 15), CharFromA(byte \div 16) >>

(* The two characters appended for one random byte:                       *)
(* 'A' + (buf[i] & 15) and 'A' + (buf[i] >> 4).                           *)
EncodeByte(byte) ==
    << CharFromA(byte % 16), CharFromA(byte \div 16) >>

(* The characters appended for buf[1..res], buf being the next bytes of    *)
(* the entropy source after `done` bytes.                                  *)
RECURSIVE EncodeBytes(_, _, _)
EncodeBytes(stream, done, res) ==
    IF res = 0
    THEN <<>>
    ELSE EncodeBytes(stream, done, res - 1) \o EncodeByte(stream[done + res])

EINTR == "EINTR"
EIO == "EIO"

(* Mutant: every failed read is retried. *)
AfterFailedRead_AlwaysRetries(errno) == "loop"

(* Where the loop goes when getrandom returned -1: `continue` on EINTR,    *)
(* `break` otherwise.                                                      *)
AfterFailedRead(errno) == IF errno = EINTR THEN "loop" ELSE "ret"

(* The byte sequences the entropy source may hand out. *)
EntropyStreams ==
    { [i \in 1..RANDOM_BYTES |-> 0],
      [i \in 1..RANDOM_BYTES |-> 255],
      [i \in 1..RANDOM_BYTES |-> (i * 53) % 256],
      [i \in 1..RANDOM_BYTES |-> ((i * 90) + 165) % 256] }

(* Generate64RandomChars is entered. *)
GenStart ==
    /\ gen_pc = "loop"
    /\ amount = RANDOM_BYTES
    /\ token = <<>>
    /\ source = "ready"
    /\ entropy \in EntropyStreams

GenInit ==
    /\ DialogInit
    /\ IdleExcept({"gen"})
    /\ GenStart

(* getrandom copies res bytes, 1 <= res <= amount; they are encoded and    *)
(* the loop condition `amount > 0` is tested again.                        *)
GetrandomReads ==
    /\ gen_pc = "loop"
    /\ amount > 0
    /\ source = "ready"
    /\ \E res \in 1..amount :
          /\ amount' = amount - res
          /\ token' = token \o EncodeBytes(entropy, RANDOM_BYTES - amount, res)
          /\ gen_pc' = IF amount - res > 0 THEN "loop" ELSE "ret"
    /\ UNCHANGED <<source, entropy, dialogVars, resolverVars, pathVars, encVars, decVars, clr, handler>>

(* getrandom returns -1: with EINTR when a signal arrived during the call  *)
(* (the signal is then handled), with another errno when the source is     *)
(* broken.                                                                 *)
GetrandomFails ==
    /\ gen_pc = "loop"
    /\ amount > 0
    /\ source \in {"signal", "broken"}
    /\ gen_pc' = AfterFailedRead(IF source = "signal" THEN EINTR ELSE EIO)
    /\ source' = IF source = "signal" THEN "ready" ELSE source
    /\ UNCHANGED <<amount, token, entropy, dialogVars, resolverVars, pathVars, encVars, decVars, clr, handler>>

(* A signal is delivered to the thread while it is in the loop. *)
SignalArrives ==
    /\ gen_pc = "loop"
    /\ source = "ready"
    /\ source' = "signal"
    /\ UNCHANGED <<gen_pc, amount, token, entropy, dialogVars, resolverVars, pathVars, encVars, decVars, clr, handler>>

(* The entropy source stops working, for good. *)
SourceBreaks ==
    /\ gen_pc = "loop"
    /\ source = "ready"
    /\ source' = "broken"
    /\ UNCHANGED <<gen_pc, amount, token, entropy, dialogVars, resolverVars, pathVars, encVars, decVars, clr, handler>>

GenStep == GetrandomReads \/ GetrandomFails

GenNext ==
    \/ GetrandomReads
    \/ GetrandomFails
    \/ SignalArrives
    \/ SourceBreaks

GenSpec == GenInit /\ [][GenNext]_vars

(* The function runs whenever it can: getrandom returns. *)
GenLiveSpec == GenSpec /\ WF_vars(GenStep)

(* The characters of [A-Za-z0-9_]. *)
TokenAlphabet ==
    { "A", "B", "C", "D", "E", "F", "G", "H", "I", "J", "K", "L", "M",
      "N", "O", "P", "Q", "R", "S", "T", "U", "V", "W", "X", "Y", "Z",
      "a", "b", "c", "d", "e", "f", "g", "h", "i", "j", "k", "l", "m",
      "n", "o", "p", "q", "r", "s", "t", "u", "v", "w", "x", "y", "z",
      "0", "1", "2", "3", "4", "5", "6", "7", "8", "9", "_" }

(* C12 as stated: whatever the entropy source does, the function returns   *)
(* with exactly 64 characters appended, all of them in [A-Za-z0-9_].       *)
C12_AlwaysSixtyFour ==
    gen_pc = "ret" =>
        /\ Len(token) = 2 * RANDOM_BYTES
        /\ \A i \in 1..Len(token) : token[i] \in TokenAlphabet

(* C12, amended: the function appends two characters of [A-Za-z0-9_] for   *)
(* every byte it read, never more than 64; it returns with exactly 64      *)
(* unless the entropy source failed for good, and then with the characters *)
(* of the bytes read before the failure.                                   *)
C12_TwoCharsPerByteRead ==
    /\ Len(token) = 2 * (RANDOM_BYTES - amount)
    /\ Len(token) <= 2 * RANDOM_BYTES
    /\ \A i \in 1..Len(token) : token[i] \in TokenAlphabet
    /\ (gen_pc = "ret" /\ source # "broken") => Len(token) = 2 * RANDOM_BYTES
    /\ (gen_pc = "ret" /\ source = "broken") => amount > 0

C12_Witness ==
    /\ gen_pc = "ret"
    /\ source = "broken"
    /\ Len(token) \in 1..(2 * RANDOM_BYTES - 1)

(* Some call of getrandom is interrupted by a signal. *)
Interrupted == GetrandomFails /\ source = "signal"

-----------------------------------------------------------------------------
(* AllocAndCopyFIlePath on its own.                                        *)

(* The positions of fileUri a call reads: the prefix loop up to the first  *)
(* mismatch, then strlen and copy up to and including the terminator.      *)
ReadPositions(fileUri) ==
    LET m == PrefixMismatch(fileUri, 1)
    IN IF m # 0
       THEN 1..m
       ELSE 1..(Len(fileUri) + 1)

(* The first k characters of s; s with position i replaced by c. *)
Take(s, k) == SubSeq(s, 1, k)
Subst(s, i, c) == [s EXCEPT ![i] = c]

UriTails == { <<>>, <<"/">>, <<"/", "a">>, <<"x">>, <<":">>, URI_FILE_A }

(* The strings the resolver is called with: beginnings of the prefix       *)
(* followed by something else, and file URIs with one character changed.   *)
ResolverInputs ==
    { Take(FILE_URI_PREFIX, k) \o t : k \in 0..FILE_URI_PREFIX_LEN, t \in UriTails }
    \cup { Subst(URI_FILE_A, i, c) : i \in 1..Len(URI_FILE_A), c \in {"x", "F", ":", "/"} }
    \cup { URI_FILE_B, URI_HTTP, URI_SHORT }

ResolverInit ==
    /\ DialogInit
    /\ IdleExcept({"resolver"})
    /\ rs_uri \in ResolverInputs
    /\ rs_reads = {}

(* One call AllocAndCopyFIlePath(rs_uri, outPath). *)
Resolve ==
    /\ result = "none"
    /\ LET a == AllocAndCopyFIlePath(rs_uri, outPath)
       IN /\ result' = a.res
          /\ outPath' = a.out
          /\ err_ptr' = IF a.err = NULL THEN err_ptr ELSE a.err
    /\ rs_reads' = ReadPositions(rs_uri)
    /\ UNCHANGED <<pc, dbus_err, handle_obj_path, sub_cmd, busRules, busLog,
                   query, reply, portalReply, responded, wire, queue, closed,
                   nForeign, released, decodes, readAfterUnref, pre,
                   rs_uri, genVars, pathVars, encVars, decVars, clr, handler>>

ResolverNext == Resolve

ResolverSpec == ResolverInit /\ [][ResolverNext]_vars

(* s begins with "file://". *)
BeginsWithFilePrefix(s) ==
    /\ Len(s) >= Len(FILE_URI_PREFIX)
    /\ \A i \in 1..Len(FILE_URI_PREFIX) : s[i] = FILE_URI_PREFIX[i]

(* s without its first seven characters. *)
AfterFilePrefix(s) == [i \in 1..(Len(s) - 7) |-> s[i + 7]]

(* C14: a call of AllocAndCopyFIlePath succeeds exactly when its input     *)
(* begins with "file://"; then outPath is a fresh copy of the input minus  *)
(* those seven characters; otherwise the result is NFD_ERROR, the error is *)
(* the 'not a file URI' message and outPath is what it was. No call reads  *)
(* the input beyond its terminator.                                        *)
C14_ResolverContract ==
    result # "none" =>
        /\ (result = NFD_OKAY) <=> BeginsWithFilePrefix(rs_uri)
        /\ BeginsWithFilePrefix(rs_uri) =>
              /\ outPath.fresh
              /\ outPath.str = AfterFilePrefix(rs_uri)
              /\ err_ptr = pre.err_ptr
        /\ ~BeginsWithFilePrefix(rs_uri) =>
              /\ result = NFD_ERROR
              /\ err_ptr = E_NOT_FILE_URI
              /\ outPath = OldPath
        /\ \A i \in rs_reads : i <= Len(rs_uri) + 1

C14_Witness ==
    /\ result = NFD_ERROR
    /\ rs_uri = Subst(URI_FILE_A, 7, "x")
    /\ outPath = OldPath

-----------------------------------------------------------------------------
(* MakeUniqueObjectPath.                                                   *)

(* "/org/freedesktop/portal/desktop/request/" *)
STR_RESPONSE_HANDLE_PREFIX ==
    <<
       "/", "o", "r", "g", "/", "f", "r", "e", "e", "d", "e", "s", "k",
       "t", "o", "p", "/", "p", "o", "r", "t", "a", "l", "/", "d", "e",
       "s", "k", "t", "o", "p", "/", "r", "e", "q", "u", "e", "s", "t",
       "/" >>

STR_RESPONSE_HANDLE_PREFIX_LEN == Len(STR_RESPONSE_HANDLE_PREFIX)

(* Mutant: the identity is copied as it is. *)
SenderChar_Kept(ch) == ch

(* The callback of `transform`: ch != '.' ? ch : '_' *)
SenderChar(ch) == IF ch # "." THEN ch ELSE "_"

(* The sender without one leading colon: `if (sender[0] == ':') ++sender` *)
SkipColon(name) == IF CharAt(name, 1) = ":" THEN Tail(name) ELSE name

(* MakeUniqueObjectPath with dbus_unique_name = name and Generate64Random- *)
(* Chars appending `random`: the characters written before the terminator, *)
(* the position *handle_token_ptr points at, and the allocation's size.    *)
MakeUniqueObjectPath(name, random) ==
    LET sender == SkipColon(name)
        sender_len == Len(sender)
        sz == STR_RESPONSE_HANDLE_PREFIX_LEN + sender_len + 1 + 64
    IN [ done |-> TRUE,
         path |-> STR_RESPONSE_HANDLE_PREFIX
                  \o [i \in 1..sender_len |-> SenderChar(sender[i])]
                  \o <<"/">>
                  \o random,
         handle_token |-> STR_RESPONSE_HANDLE_PREFIX_LEN + sender_len + 1 + 1,
         alloc |-> sz + 1 ]

(* The longest connection identity examined. *)
MaxNameLen == 3

RECURSIVE NamesOfLen(_)
NamesOfLen(n) ==
    IF n = 0
    THEN { <<>> }
    ELSE { <<c>> \o w : c \in {":", ".", "1"}, w \in NamesOfLen(n - 1) }

(* The connection identities: the one of this model's bus, and every       *)
(* string of colons, dots and digits up to MaxNameLen.                     *)
UniqueNames ==
    { <<":", "1", ".", "7">> } \cup UNION { NamesOfLen(n) : n \in 0..MaxNameLen }

PathInit ==
    /\ DialogInit
    /\ IdleExcept({"path", "gen"})
    /\ mp_name \in UniqueNames
    /\ mp_ret = NoPath
    /\ gen_pc = "loop"
    /\ amount = RANDOM_BYTES
    /\ token = <<>>
    /\ source = "ready"
    /\ entropy = [i \in 1..RANDOM_BYTES |-> (i * 53) % 256]

(* Generate64RandomChars has returned; the terminator is written and the   *)
(* buffer returned.                                                        *)
PathReturn ==
    /\ gen_pc = "ret"
    /\ ~mp_ret.done
    /\ mp_ret' = MakeUniqueObjectPath(mp_name, token)
    /\ UNCHANGED <<mp_name, genVars, dialogVars, resolverVars, encVars, decVars, clr, handler>>

PathNext ==
    \/ GetrandomReads
    \/ GetrandomFails
    \/ SignalArrives
    \/ SourceBreaks
    \/ PathReturn

PathSpec == PathInit /\ [][PathNext]_vars

(* The C string that begins at position i of s. *)
RECURSIVE CStr(_, _)
CStr(s, i) ==
    IF CharAt(s, i) = NUL THEN <<>> ELSE <<s[i]>> \o CStr(s, i + 1)

(* The identity segment the claim describes. *)
IdentitySegment(name) ==
    LET rest == IF name # <<>> /\ Head(name) = ":" THEN Tail(name) ELSE name
    IN [i \in 1..Len(rest) |-> IF rest[i] = "." THEN "_" ELSE rest[i]]

(* The positions of "/" in s. *)
Slashes(s) == { i \in 1..Len(s) : s[i] = "/" }

(* C19: MakeUniqueObjectPath returns the fixed prefix, the identity with   *)
(* one leading colon removed and every dot replaced by an underscore, a    *)
(* slash and the token; the identity segment holds no dot, the terminator  *)
(* lies within the allocation, and the token pointer addresses exactly the *)
(* characters after the last slash.                                        *)
C19_UniqueObjectPath ==
    mp_ret.done =>
        LET seg == IdentitySegment(mp_name)
            first == Len(STR_RESPONSE_HANDLE_PREFIX) + 1
            last == Len(STR_RESPONSE_HANDLE_PREFIX) + Len(seg)
        IN /\ mp_ret.path = STR_RESPONSE_HANDLE_PREFIX \o seg \o <<"/">> \o token
           /\ \A i \in first..last : mp_ret.path[i] # "."
           /\ Len(mp_ret.path) + 1 <= mp_ret.alloc
           /\ CStr(mp_ret.path, mp_ret.handle_token) = token
           /\ \A i \in Slashes(mp_ret.path) : i < mp_ret.handle_token
           /\ (mp_ret.handle_token - 1) \in Slashes(mp_ret.path)

C19_Witness ==
    /\ mp_ret.done
    /\ mp_name = <<":", "1", ".", "7">>
    /\ Len(token) = 2 * RANDOM_BYTES

-----------------------------------------------------------------------------
(* Request Encoder: the calls of the message-append interface, in order.   *)

DBUS_TYPE_BOOLEAN == "b"
DBUS_TYPE_TUPLE == "TUPLE"
DBUS_TYPE_UNSIGNED == "UNSIGNED"

STR_EMPTY == <<>>
STR_OPEN_FILE == <<"O", "p", "e", "n", " ", "F", "i", "l", "e">>
STR_HANDLE_TOKEN ==
    <<"h", "a", "n", "d", "l", "e", "_", "t", "o", "k", "e", "n">>
STR_MULTIPLE == <<"m", "u", "l", "t", "i", "p", "l", "e">>
STR_FILTERS == <<"f", "i", "l", "t", "e", "r", "s">>

(* dbus_message_iter_open_container(&iter, type, signature, &sub) *)
OpenContainer(iter, type, sub) ==
    [op |-> "open", iter |-> iter, type |-> type, num |-> 0, str |-> <<>>,
     sub |-> sub]

(* dbus_message_iter_append_basic(&iter, type, &value) *)
AppendBasic(iter, type, n, str) ==
    [op |-> "append", iter |-> iter, type |-> type, num |-> n, str |-> str,
     sub |-> ""]

(* dbus_message_iter_close_container(&iter, &sub) *)
CloseContainer(iter, sub) ==
    [op |-> "close", iter |-> iter, type |-> "", num |-> 0, str |-> <<>>,
     sub |-> sub]

AppendOpenFileQueryDictEntryHandleToken(handle_token) ==
    << OpenContainer("sub_iter", DBUS_TYPE_DICT_ENTRY, "sub_sub_iter"),
       AppendBasic("sub_sub_iter", DBUS_TYPE_STRING, 0, STR_HANDLE_TOKEN),
       OpenContainer("sub_sub_iter", DBUS_TYPE_VARIANT, "variant_iter"),
       AppendBasic("variant_iter", DBUS_TYPE_STRING, 0, handle_token),
       CloseContainer("sub_sub_iter", "variant_iter"),
       CloseContainer("sub_iter", "sub_sub_iter") >>

(* Mutant: the single-selection instantiation appends the entry too. *)
AppendOpenFileQueryDictEntryMultiple_Always(Multiple) ==
    << OpenContainer("sub_iter", DBUS_TYPE_DICT_ENTRY, "sub_sub_iter"),
       AppendBasic("sub_sub_iter", DBUS_TYPE_STRING, 0, STR_MULTIPLE),
       OpenContainer("sub_sub_iter", DBUS_TYPE_VARIANT, "variant_iter"),
       AppendBasic("variant_iter", DBUS_TYPE_BOOLEAN, 1, <<>>),
       CloseContainer("sub_sub_iter", "variant_iter"),
       CloseContainer("sub_iter", "sub_sub_iter") >>

(* The two specialisations of AppendOpenFileQueryDictEntryMultiple. *)
AppendOpenFileQueryDictEntryMultiple(Multiple) ==
    IF Multiple
    THEN << OpenContainer("sub_iter", DBUS_TYPE_DICT_ENTRY, "sub_sub_iter"),
            AppendBasic("sub_sub_iter", DBUS_TYPE_STRING, 0, STR_MULTIPLE),
            OpenContainer("sub_sub_iter", DBUS_TYPE_VARIANT, "variant_iter"),
            AppendBasic("variant_iter", DBUS_TYPE_BOOLEAN, 1, <<>>),
            CloseContainer("sub_sub_iter", "variant_iter"),
            CloseContainer("sub_iter", "sub_sub_iter") >>
    ELSE <<>>

(* The memory a filter's spec lies in: its characters, its terminator and  *)
(* whatever follows; past what the model holds reads as a terminator.      *)
SpecMemory(spec, beyond) == spec \o <<NUL>> \o beyond

(* The do-while loop that increments extn_end until it points at a comma   *)
(* or a terminator, extn_end having been incremented to e: where it stops. *)
RECURSIVE ScanEnd(_, _)
ScanEnd(mem, e) ==
    IF CharAt(mem, e) = "," \/ CharAt(mem, e) = NUL
    THEN e
    ELSE ScanEnd(mem, e + 1)

(* The `while (true)` loop of the filters entry from extn_begin = b.       *)
(* `garbage` is what follows the unterminated copy in `buf` up to the next *)
(* zero byte of the stack.                                                 *)
RECURSIVE ExtensionLoop(_, _, _)
ExtensionLoop(mem, b, garbage) ==
    LET extn_end == ScanEnd(mem, b + 1)
        opened ==
            << OpenContainer("filter_sublist_iter", DBUS_TYPE_TUPLE,
                             "filter_sublist_tuple_iter"),
               AppendBasic("filter_list_tuple_iter", DBUS_TYPE_UNSIGNED, 0, <<>>) >>
    IN IF CharAt(mem, extn_end) = NUL
       THEN opened \o
            << AppendBasic("filter_list_tuple_iter", DBUS_TYPE_STRING, 0,
                           CStr(mem, b)) >>
       ELSE opened \o
            << AppendBasic("filter_list_tuple_iter", DBUS_TYPE_STRING, 0,
                           CStr(SubSeq(mem, b, extn_end - 1) \o garbage, 1)),
               CloseContainer("filter_sublist_iter", "filter_sublist_tuple_iter") >>
            \o ExtensionLoop(mem, extn_end + 1, garbage)

(* The last position of `mem` the loop reads. *)
RECURSIVE LastScanned(_, _)
LastScanned(mem, b) ==
    LET extn_end == ScanEnd(mem, b + 1)
    IN IF CharAt(mem, extn_end) = NUL
       THEN extn_end
       ELSE LastScanned(mem, extn_end + 1)

(* The body of the `for` loop over filterList, from entry i on. *)
RECURSIVE FilterListLoop(_, _, _, _)
FilterListLoop(filterList, i, beyond, garbage) ==
    IF i > Len(filterList)
    THEN <<>>
    ELSE << OpenContainer("filter_list_iter", DBUS_TYPE_TUPLE,
                          "filter_list_tuple_iter"),
            AppendBasic("filter_list_tuple_iter", DBUS_TYPE_STRING, 0,
                        filterList[i].name),
            OpenContainer("filter_list_tuple_iter", DBUS_TYPE_ARRAY,
                          "filter_sublist_iter") >>
         \o ExtensionLoop(SpecMemory(filterList[i].spec, beyond), 1, garbage)
         \o << CloseContainer("filter_list_tuple_iter", "filter_sublist_iter"),
               CloseContainer("filter_list_iter", "filter_list_tuple_iter") >>
         \o FilterListLoop(filterList, i + 1, beyond, garbage)

AppendOpenFileQueryDictEntryFilters(filterList, beyond, garbage) ==
    << OpenContainer("sub_iter", DBUS_TYPE_DICT_ENTRY, "sub_sub_iter"),
       AppendBasic("sub_sub_iter", DBUS_TYPE_STRING, 0, STR_FILTERS),
       OpenContainer("sub_sub_iter", DBUS_TYPE_VARIANT, "variant_iter"),
       OpenContainer("variant_iter", DBUS_TYPE_ARRAY, "filter_list_iter") >>
    \o FilterListLoop(filterList, 1, beyond, garbage)
    \o << CloseContainer("variant_iter", "filter_list_iter"),
          CloseContainer("sub_sub_iter", "variant_iter"),
          CloseContainer("sub_iter", "sub_sub_iter") >>

AppendOpenFileQueryParams(Multiple, handle_token, filterList, beyond, garbage) ==
    << AppendBasic("iter", DBUS_TYPE_STRING, 0, STR_EMPTY),
       AppendBasic("iter", DBUS_TYPE_STRING, 0, STR_OPEN_FILE),
       OpenContainer("iter", DBUS_TYPE_ARRAY, "sub_iter") >>
    \o AppendOpenFileQueryDictEntryHandleToken(handle_token)
    \o AppendOpenFileQueryDictEntryMultiple(Multiple)
    \o (IF Len(filterList) # 0
        THEN AppendOpenFileQueryDictEntryFilters(filterList, beyond, garbage)
        ELSE <<>>)
    \o << CloseContainer("iter", "sub_iter") >>

(* What the append interface makes of the calls. Every `open` and every    *)
(* `append` puts one node into the container its iterator writes into,     *)
(* which is the container of the latest `open` that set up that iterator   *)
(* (0: the message itself, for `iter`). Nodes are named by the position of *)
(* their call.                                                             *)
LatestOpen(ops, it, n) ==
    LET S == { k \in 1..(n - 1) : ops[k].op = "open" /\ ops[k].sub = it }
    IN IF S = {} THEN 0 ELSE CHOOSE k \in S : \A j \in S : j <= k

(* The container each call's node is put in. *)
ParentOf(ops) == [n \in 1..Len(ops) |-> LatestOpen(ops, ops[n].iter, n)]

(* The nodes put in container n, in order; `par` is ParentOf(ops). *)
KidsOf(ops, par, n) ==
    LET K == { k \in 1..Len(ops) : ops[k].op # "close" /\ par[k] = n }
    IN [j \in 1..Cardinality(K) |->
          CHOOSE k \in K : Cardinality({ x \in K : x <= k }) = j]

(* Node n as the value a reader of the message finds. *)
RECURSIVE Value(_, _, _)
Value(ops, par, n) ==
    LET K == KidsOf(ops, par, n)
    IN Val(ops[n].type, ops[n].num, ops[n].str,
           [j \in 1..Len(K) |-> Value(ops, par, K[j])])

(* The arguments of the message the calls `ops` built. *)
MessageArgs(ops) ==
    LET par == ParentOf(ops)
        K == KidsOf(ops, par, 0)
    IN [j \in 1..Len(K) |-> Value(ops, par, K[j])]

(* The longest filter list examined. *)
MaxFilters == 2

FilterItem(name, spec) == [name |-> name, spec |-> spec]

(* Filter specs: well-formed ones, and the edge cases. *)
FilterSpecs ==
    { <<"a">>, <<"a", "b">>, <<"a", ",", "b">>, <<"a", "b", ",", "c", ",", "d">>,
      <<>>, <<",", "a">>, <<"a", ",">>, <<"a", ",", ",", "b">> }

FilterItems ==
    { FilterItem(<<"I">>, spec) : spec \in FilterSpecs }
    \cup { FilterItem(<<"T", "x", "t">>, <<"a">>) }

RECURSIVE FilterListsOfLen(_)
FilterListsOfLen(n) ==
    IF n = 0
    THEN { <<>> }
    ELSE { <<f>> \o l : f \in FilterItems, l \in FilterListsOfLen(n - 1) }

FilterLists == UNION { FilterListsOfLen(n) : n \in 0..MaxFilters }

(* What may lie after a spec's terminator, and after the unterminated copy *)
(* of an extension on the stack.                                           *)
MemoryBeyond == { <<>>, <<"z">>, <<",", "z">> }
StackGarbage == { <<>>, <<"?">> }

EncInit ==
    /\ DialogInit
    /\ pre.err_ptr = NULL
    /\ IdleExcept({"enc", "path"})
    /\ mp_name = <<":", "1", ".", "7">>
    /\ mp_ret \in { MakeUniqueObjectPath(mp_name, random) :
                      random \in { <<>>, <<"P", "A", "A", "P">> } }
    /\ enc_filters \in FilterLists
    /\ enc_out = NoArgs

(* AppendOpenFileQueryParams<Multiple>(query, handle_token_ptr, filterList, *)
(* filterCount) on a fresh query.                                          *)
Appends(caller, Multiple) ==
    /\ ~enc_out.done
    /\ \E beyond \in MemoryBeyond, garbage \in StackGarbage :
          LET ops == AppendOpenFileQueryParams(
                         Multiple, CStr(mp_ret.path, mp_ret.handle_token),
                         enc_filters, beyond, garbage)
          IN enc_out' =
              [done |-> TRUE, caller |-> caller, Multiple |-> Multiple,
               ops |-> ops, args |-> MessageArgs(ops),
               scanned |-> [i \in 1..Len(enc_filters) |->
                              LastScanned(SpecMemory(enc_filters[i].spec, beyond), 1)]]
    /\ UNCHANGED <<enc_filters, dialogVars, genVars, resolverVars, pathVars, decVars, clr, handler>>

(* The call NFD_OpenDialogN makes. *)
OpenDialogAppends == Appends("NFD_OpenDialogN", FALSE)

(* The call of the multi-selection instantiation. *)
MultipleAppends == Appends("multiple", TRUE)

EncNext ==
    \/ OpenDialogAppends
    \/ MultipleAppends

EncSpec == EncInit /\ [][EncNext]_vars

(* The options dictionary of the encoded call, and the keys of its entries. *)
OptionsDict == enc_out.args[3]
OptionKeys == { OptionsDict.kids[i].kids[1].str : i \in 1..Len(OptionsDict.kids) }
OptionValue(key) ==
    LET i == CHOOSE i \in 1..Len(OptionsDict.kids) : OptionsDict.kids[i].kids[1].str = key
    IN OptionsDict.kids[i].kids[2].kids[1]

(* The characters of s after its last slash. *)
AfterLastSlash(s) ==
    LET last == CHOOSE i \in Slashes(s) : \A j \in Slashes(s) : j <= i
    IN SubSeq(s, last + 1, Len(s))

(* C17: the encoded options dictionary always holds handle_token, equal to *)
(* the token of the guessed callback address; it holds multiple only when  *)
(* multi-selection is requested, never for the call NFD_OpenDialogN makes; *)
(* it holds filters exactly when the filter count is not zero.             *)
C17_OptionsDictionary ==
    enc_out.done =>
        /\ OptionsDict.type = DBUS_TYPE_ARRAY
        /\ STR_HANDLE_TOKEN \in OptionKeys
        /\ OptionValue(STR_HANDLE_TOKEN) = Str(AfterLastSlash(mp_ret.path))
        /\ (STR_MULTIPLE \in OptionKeys) <=> enc_out.Multiple
        /\ enc_out.caller = "NFD_OpenDialogN" => STR_MULTIPLE \notin OptionKeys
        /\ (STR_FILTERS \in OptionKeys) <=> (Len(enc_filters) # 0)
        /\ OptionKeys \subseteq {STR_HANDLE_TOKEN, STR_MULTIPLE, STR_FILTERS}

C17_Witness ==
    /\ enc_out.done
    /\ enc_out.caller = "NFD_OpenDialogN"
    /\ Len(enc_filters) = 2
    /\ Len(AfterLastSlash(mp_ret.path)) = 4

(* The segments of a filter spec between its commas. *)
RECURSIVE Split(_)
Split(spec) ==
    LET C == { i \in 1..Len(spec) : spec[i] = "," }
    IN IF C = {}
       THEN <<spec>>
       ELSE LET c == CHOOSE i \in C : \A j \in C : i <= j
            IN <<SubSeq(spec, 1, c - 1)>> \o Split(SubSeq(spec, c + 1, Len(spec)))

(* A spec of one or more non-empty extensions separated by commas. *)
WellFormed(spec) == \A j \in 1..Len(Split(spec)) : Split(spec)[j] # <<>>

(* The groups of the encoded `filters` value; none when there is no entry. *)
FilterGroups ==
    IF STR_FILTERS \in OptionKeys THEN OptionValue(STR_FILTERS).kids ELSE <<>>

(* The group a reader expects for one filter item. *)
ExpectedGroup(item) ==
    LET exts == Split(item.spec)
    IN Val(DBUS_TYPE_TUPLE, 0, <<>>,
           << Str(item.name),
              Arr([j \in 1..Len(exts) |->
                     Val(DBUS_TYPE_TUPLE, 0, <<>>,
                         << Val(DBUS_TYPE_UNSIGNED, 0, <<>>, <<>>), Str(exts[j]) >>)]) >>)

(* C15: for filter items whose specs are one or more non-empty extensions  *)
(* separated by commas, the encoded filters value holds one group per      *)
(* item, named as the item, with one (0, extension) tuple per extension in *)
(* order, the pattern being the bare extension text.                       *)
C15_FiltersRoundTrip ==
    (/\ enc_out.done
     /\ Len(enc_filters) # 0
     /\ \A i \in 1..Len(enc_filters) : WellFormed(enc_filters[i].spec)) =>
        FilterGroups = [i \in 1..Len(enc_filters) |-> ExpectedGroup(enc_filters[i])]

(* The strings found in a value, in order. *)
RECURSIVE Strings(_)
RECURSIVE StringsFrom(_, _)
Strings(v) ==
    (IF v.type = DBUS_TYPE_STRING THEN <<v.str>> ELSE <<>>) \o StringsFrom(v.kids, 1)
StringsFrom(kids, i) ==
    IF i > Len(kids) THEN <<>> ELSE Strings(kids[i]) \o StringsFrom(kids, i + 1)

(* The patterns of a group: its strings but the first, which is its name. *)
Patterns(group) == Tail(Strings(group))

(* C16: a spec without a comma yields exactly one extension entry; a spec  *)
(* with a trailing comma, a leading comma, an empty segment or no          *)
(* character is not encoded; no pattern is empty or holds a comma; the     *)
(* scan of a spec never goes past its terminator.                          *)
C16_EdgeCasesRejected ==
    enc_out.done =>
        /\ \A i \in 1..Len(enc_filters) :
              LET spec == enc_filters[i].spec
              IN /\ (Len(Split(spec)) = 1 /\ spec # <<>>) =>
                        /\ i <= Len(FilterGroups)
                        /\ Len(Patterns(FilterGroups[i])) = 1
                 /\ ~WellFormed(spec) => Len(FilterGroups) < Len(enc_filters)
                 /\ enc_out.scanned[i] <= Len(spec) + 1
        /\ \A g \in 1..Len(FilterGroups) :
              \A j \in 1..Len(Patterns(FilterGroups[g])) :
                 LET p == Patterns(FilterGroups[g])[j]
                 IN p # <<>> /\ \A k \in 1..Len(p) : p[k] # ","

-----------------------------------------------------------------------------
(* ReadResponseParamsSingle on results dictionaries of every shape.        *)

(* The longest results dictionary examined. *)
MaxEntries == 3

KEY_CHOICE == <<"c", "h", "o", "i", "c", "e", "s">>

(* What the array of a results dictionary may hold: uris entries, entries  *)
(* with other keys, ill-formed entries, and an element that is no entry.   *)
EntryKinds ==
    { UrisEntry(<<Str(URI_FILE_A)>>),
      UrisEntry(<<Str(URI_FILE_B), Str(URI_FILE_A)>>),
      UrisEntry(<<>>),
      DictEntry(Str(KEY_URIS), Variant(U32(5))),
      OtherEntry,
      DictEntry(Str(KEY_CHOICE), Variant(Arr(<<Str(URI_HTTP)>>))),
      DictEntry(U32(1), Variant(U32(5))),
      Val(DBUS_TYPE_DICT_ENTRY, 0, <<>>, <<Str(KEY_OTHER)>>),
      DictEntry(Str(KEY_OTHER), U32(5)),
      Str(KEY_OTHER) }

RECURSIVE DictsOfLen(_)
DictsOfLen(n) ==
    IF n = 0
    THEN { <<>> }
    ELSE { <<e>> \o d : e \in EntryKinds, d \in DictsOfLen(n - 1) }

ResultsDicts == UNION { DictsOfLen(n) : n \in 0..MaxEntries }

DecInit ==
    /\ DialogInit
    /\ pre.err_ptr = NULL
    /\ IdleExcept({"dec"})
    /\ dec_dict \in ResultsDicts
    /\ dec_ret = NotDecoded

(* ReadResponseParamsSingle(msg, file) for a Response with status 0 and    *)
(* the dictionary dec_dict, `file` being null before.                      *)
Decode ==
    /\ ~dec_ret.done
    /\ LET r == ReadResponseParamsSingle(<<U32(0), Dict(dec_dict)>>, NullPtr)
       IN dec_ret' = [done |-> TRUE, res |-> r.res, file |-> r.file, err |-> r.err]
    /\ UNCHANGED <<dec_dict, dialogVars, genVars, resolverVars, pathVars, encVars, clr, handler>>

DecNext == Decode

DecSpec == DecInit /\ [][DecNext]_vars

(* A dictionary entry: an element of entry type with a string key and a    *)
(* variant value.                                                          *)
IsEntry(e) ==
    /\ e.type = DBUS_TYPE_DICT_ENTRY
    /\ Len(e.kids) = 2
    /\ e.kids[1].type = DBUS_TYPE_STRING
    /\ e.kids[2].type = DBUS_TYPE_VARIANT

HasKey(e, key) == IsEntry(e) /\ e.kids[1].str = key

(* A uris entry whose value is an array that begins with a string. *)
IsWellFormedUris(e) ==
    /\ HasKey(e, KEY_URIS)
    /\ e.kids[2].kids[1].type = DBUS_TYPE_ARRAY
    /\ Len(e.kids[2].kids[1].kids) >= 1
    /\ e.kids[2].kids[1].kids[1].type = DBUS_TYPE_STRING

(* The dictionary without its entries of other keys than uris. *)
RECURSIVE WithoutUnmatched(_)
WithoutUnmatched(d) ==
    IF d = <<>>
    THEN <<>>
    ELSE (IF IsEntry(Head(d)) /\ ~HasKey(Head(d), KEY_URIS) THEN <<>> ELSE <<Head(d)>>)
         \o WithoutUnmatched(Tail(d))

(* C18: entries whose key has no handler are skipped without error: the    *)
(* decoder returns for a dictionary what it returns for the dictionary     *)
(* without them; and a dictionary of one well-formed uris entry and any    *)
(* entries of other keys decodes to NFD_OKAY with the first string of the  *)
(* uris array, whatever else that array holds.                             *)
C18_UnmatchedKeysSkipped ==
    dec_ret.done =>
        /\ LET r == ReadResponseParamsSingle(
                        <<U32(0), Dict(WithoutUnmatched(dec_dict))>>, NullPtr)
           IN /\ dec_ret.res = r.res
              /\ dec_ret.file = r.file
              /\ dec_ret.err = r.err
        /\ (/\ \A i \in 1..Len(dec_dict) : IsEntry(dec_dict[i])
            /\ Cardinality({ i \in 1..Len(dec_dict) : HasKey(dec_dict[i], KEY_URIS) }) = 1
            /\ \E i \in 1..Len(dec_dict) : IsWellFormedUris(dec_dict[i])) =>
              LET u == CHOOSE i \in 1..Len(dec_dict) : IsWellFormedUris(dec_dict[i])
              IN /\ dec_ret.res = NFD_OKAY
                 /\ dec_ret.file = Ptr(dec_dict[u].kids[2].kids[1].kids[1].str)
                 /\ dec_ret.err = NULL

C18_Witness ==
    /\ dec_ret.done
    /\ dec_ret.res = NFD_OKAY
    /\ dec_ret.file = Ptr(URI_FILE_B)
    /\ dec_dict = << OtherEntry,
                     UrisEntry(<<Str(URI_FILE_B), Str(URI_FILE_A)>>),
                     DictEntry(Str(KEY_CHOICE), Variant(Arr(<<Str(URI_HTTP)>>))) >>

(* The decode goes past this element: it is an entry, and when its key is  *)
(* uris its value is an array that begins with a string.                   *)
Passes(e) == IsEntry(e) /\ (HasKey(e, KEY_URIS) => IsWellFormedUris(e))

(* Where the decode of dictionary d stops: at its first element that does  *)
(* not pass, or beyond its last.                                           *)
StopsAt(d) ==
    IF \A i \in 1..Len(d) : Passes(d[i])
    THEN Len(d) + 1
    ELSE CHOOSE i \in 1..Len(d) : ~Passes(d[i]) /\ \A j \in 1..(i - 1) : Passes(d[j])

(* The uris entries read before the decode of d stopped. *)
UrisRead(d) == { i \in 1..(StopsAt(d) - 1) : HasKey(d[i], KEY_URIS) }

-----------------------------------------------------------------------------
(* NFD_GetError and NFD_ClearError, called between the operations.         *)

(* Mutant: the buffer is released and left as it was. *)
dbus_error_free_NoReinit(buffer) == [buffer |-> buffer, released |-> buffer]

(* dbus_error_free(&dbus_err): the message the buffer holds, if any, is    *)
(* released and the buffer is initialised again.                           *)
dbus_error_free(buffer) == [buffer |-> DE_UNSET, released |-> buffer]

NFD_GetError == err_ptr

(* A call of NFD_ClearError by the application, which calls the library    *)
(* from one thread and so not while NFD_OpenDialogN runs. `clr` counts the *)
(* calls made with no other operation in between, up to the second.        *)
NFD_ClearError ==
    /\ pc \in {"idle", "done"}
    /\ clr.calls < 2 \/ clr.at # pc
    /\ err_ptr' = NULL
    /\ LET f == dbus_error_free(dbus_err)
           first == clr.calls = 0 \/ clr.at # pc
       IN /\ dbus_err' = f.buffer
          /\ clr' = [calls |-> IF first THEN 1 ELSE clr.calls + 1,
                     at |-> pc,
                     released |-> IF first
                                  THEN <<f.released>>
                                  ELSE Append(clr.released, f.released)]
    /\ UNCHANGED <<pc, result, outPath, handle_obj_path, sub_cmd, busRules,
                   busLog, query, reply, portalReply, responded, wire, queue,
                   closed, nForeign, released, decodes, readAfterUnref, pre,
                   genVars, resolverVars, pathVars, encVars, decVars, handler>>

ErrNext ==
    \/ Next
    \/ NFD_ClearError

ErrSpec == Init /\ [][ErrNext]_vars

(* C20: after any operations, NFD_ClearError may be called twice in a row: *)
(* NFD_GetError returns null after the first call and after the second,    *)
(* the first call releases the message the transport error buffer held and *)
(* the second releases nothing.                                            *)
C20_ClearErrorTwice ==
    /\ (clr.calls >= 1 /\ clr.at = pc) =>
          /\ NFD_GetError = NULL
          /\ dbus_err = DE_UNSET
    /\ clr.calls = 2 => clr.released[2] = DE_UNSET

C20_Witness ==
    /\ clr.calls = 2
    /\ clr.at = "done"
    /\ clr.released[1] = DE_CALL
    /\ NFD_GetError = NULL

-----------------------------------------------------------------------------
(* Two operations on one connection.  The connection and its queue are     *)
(* shared (lines 59-68); the Response signals of the other open-dialog     *)
(* operation are the ForeignTraffic this operation finds in the queue,     *)
(* addressed to ForeignPath.                                               *)

C22_FirstResponseEnds ==
    [][ /\ (pc = "pop" /\ queue # <<>> /\ queue' = Tail(queue)
               /\ ~IsResponseSignal(Head(queue))) =>
                  /\ pc' = "pop"
                  /\ result' = result
                  /\ outPath' = outPath
                  /\ err_ptr' = err_ptr
        /\ (TakesResponse /\ decodes = 0) =>
                  /\ pc' = "done"
                  /\ result' # "none" ]_vars

(* C23, as claimed: after a Subscribe whose add-match failed the manager   *)
(* holds no stored rule, and no remove-match is ever issued for a rule     *)
(* that was never registered: every remove-match follows a successful      *)
(* add-match of the same rule.                                             *)
C23_FailedSubscribeStoresNothing ==
    /\ (Len(busLog) > 0 /\ busLog[Len(busLog)].op = "add" /\ ~busLog[Len(busLog)].ok) =>
           sub_cmd.null
    /\ \A j \in 1..Len(busLog) :
         busLog[j].op = "remove" =>
             \E i \in 1..(j - 1) : busLog[i] = BusOp("add", busLog[j].rule, TRUE)

-----------------------------------------------------------------------------
(* DBusSignalSubscriptionHandler on its own: any sequence of Subscribe,    *)
(* Unsubscribe and destruction on one manager.  The manager's sub_cmd, the *)
(* bus and the error slot are the ones of the model above; `handler` keeps *)
(* what is particular to the sequence: whether the object is live, the     *)
(* result of its last Subscribe, and the pointers passed to NFDi_Free.     *)

MaxCalls == 4

(* NFDi_Free(ptr) is assert(ptr) and then free(ptr).  With a null pointer  *)
(* the assertion ends the process where assertions are compiled in; where  *)
(* they are not, free(nullptr) does nothing.                               *)
NFDi_Free(ptr) == IF ptr.null THEN {"abort", "nothing"} ELSE {"freed"}

HandlerInit ==
    /\ DialogInit
    /\ IdleExcept({"handler"})
    /\ handler = [state |-> "live", calls |-> 0, res |-> "none", freed |-> <<>>]

(* Subscribe(handle_path), lines 686-699; line 688 unsubscribes first when *)
(* a rule string is stored, which frees that string.                       *)
HandlerSubscribe ==
    /\ handler.state = "live"
    /\ handler.calls < MaxCalls
    /\ \E handle_path \in {GuessedPath, RedirectedPath}, addOk \in BOOLEAN :
         LET sub == Subscribe(CurSub, handle_path, addOk, err_ptr, dbus_err)
         IN /\ sub_cmd' = sub.sub.sub_cmd
            /\ busRules' = sub.sub.rules
            /\ busLog' = sub.sub.log
            /\ err_ptr' = sub.err_ptr
            /\ dbus_err' = sub.dbus_err
            /\ handler' = [handler EXCEPT
                              !.calls = @ + 1,
                              !.res = sub.res,
                              !.freed = IF sub_cmd.null THEN @ ELSE Append(@, sub_cmd)]
    /\ UNCHANGED <<pc, result, outPath, handle_obj_path, query, reply, portalReply,
                   responded, wire, queue, closed, nForeign, released, decodes,
                   readAfterUnref, pre, genVars, resolverVars, pathVars, encVars,
                   decVars, clr>>

(* Unsubscribe(), lines 701-709, called by the owner: there is no test of  *)
(* sub_cmd, so remove-match and NFDi_Free get whatever it holds.           *)
HandlerUnsubscribe ==
    /\ handler.state = "live"
    /\ handler.calls < MaxCalls
    /\ \E freeing \in NFDi_Free(sub_cmd) :
         LET u == Unsubscribe(CurSub)
         IN /\ busRules' = u.rules
            /\ busLog' = u.log
            /\ sub_cmd' = IF freeing = "abort" THEN sub_cmd ELSE u.sub_cmd
            /\ handler' = [handler EXCEPT
                              !.state = IF freeing = "abort" THEN "aborted" ELSE @,
                              !.calls = @ + 1,
                              !.freed = Append(@, sub_cmd)]
    /\ UNCHANGED <<pc, result, err_ptr, dbus_err, outPath, handle_obj_path, query,
                   reply, portalReply, responded, wire, queue, closed, nForeign,
                   released, decodes, readAfterUnref, pre, genVars, resolverVars,
                   pathVars, encVars, decVars, clr>>

(* ~DBusSignalSubscriptionHandler(), line 683. *)
HandlerDestroy ==
    /\ handler.state = "live"
    /\ LET d == SubscriptionHandlerDtor(CurSub)
       IN /\ sub_cmd' = d.sub_cmd
          /\ busRules' = d.rules
          /\ busLog' = d.log
          /\ handler' = [handler EXCEPT
                            !.state = "destroyed",
                            !.freed = IF sub_cmd.null THEN @ ELSE Append(@, sub_cmd)]
    /\ UNCHANGED <<pc, result, err_ptr, dbus_err, outPath, handle_obj_path, query,
                   reply, portalReply, responded, wire, queue, closed, nForeign,
                   released, decodes, readAfterUnref, pre, genVars, resolverVars,
                   pathVars, encVars, decVars, clr>>

HandlerNext ==
    \/ HandlerSubscribe
    \/ HandlerUnsubscribe
    \/ HandlerDestroy

HandlerSpec == HandlerInit /\ [][HandlerNext]_vars

(* The manager holds no rule string: it was never subscribed, or was       *)
(* unsubscribed last.                                                      *)
NothingStored == sub_cmd.null

(* C24, as claimed: Unsubscribe on a manager that was never subscribed,    *)
(* whose last Subscribe failed, or that was just unsubscribed, is safe: it *)
(* passes NFDi_Free no null and no already released pointer, trips no      *)
(* assertion and leaves the manager holding nothing.                       *)
C24_UnsubscribeAlwaysSafe ==
    [][ HandlerUnsubscribe =>
            /\ handler'.state = "live"
            /\ ~sub_cmd.null
            /\ sub_cmd'.null ]_vars

(* C25: whatever sequence of Subscribe, Unsubscribe and destruction is     *)
(* made on one manager, the bus holds at most one rule of the manager, and *)
(* it is the one whose string the manager stores; a Subscribe on a manager *)
(* that stores a rule asks the bus to remove that rule and frees its       *)
(* string, and only then adds the new rule; once the manager is destroyed  *)
(* the bus holds no rule of it and nothing is stored.                      *)
C25_AtMostOneRule ==
    [][ /\ Cardinality(busRules') <= 1
        /\ busRules' \subseteq {sub_cmd'.str}
        /\ (HandlerSubscribe /\ ~NothingStored) =>
               /\ Len(busLog') = Len(busLog) + 2
               /\ busLog'[Len(busLog) + 1] =
                      BusOp("remove", sub_cmd.str, sub_cmd.str \in busRules)
               /\ busLog'[Len(busLog) + 2].op = "add"
               /\ handler'.freed = Append(handler.freed, sub_cmd)
        /\ handler'.state = "destroyed" => busRules' = {} /\ sub_cmd'.null ]_vars

(* Subscribed to one address, then to another, then destroyed. *)
C25_Witness ==
    /\ handler.state = "destroyed"
    /\ busLog = <<BusOp("add", Rule(GuessedPath), TRUE),
                  BusOp("remove", Rule(GuessedPath), TRUE),
                  BusOp("add", Rule(RedirectedPath), TRUE),
                  BusOp("remove", Rule(RedirectedPath), TRUE)>>
    /\ handler.freed = <<Ptr(Rule(GuessedPath)), Ptr(Rule(RedirectedPath))>>
    /\ busRules = {}

(* This step made a remove-match that failed. *)
RemoveMatchFailed ==
    \E i \in (Len(busLog) + 1)..Len(busLog') :
        busLog'[i].op = "remove" /\ ~busLog'[i].ok

(* C26: a remove-match that fails inside Unsubscribe, whether Unsubscribe  *)
(* was called by a replacing Subscribe, by the owner or by the destructor, *)
(* leaves the error slot and buffer as they were and does not change what  *)
(* Subscribe returns: NFD_OKAY when its add-match succeeded, and NFD_ERROR  *)
(* with the add-match error when that failed.                              *)
C26_RemoveFailureIsSilent ==
    [][ RemoveMatchFailed =>
            LET last == busLog'[Len(busLog')]
            IN /\ last.op = "remove" =>
                      /\ err_ptr' = err_ptr
                      /\ dbus_err' = dbus_err
                      /\ handler'.res = handler.res
               /\ (last.op = "add" /\ last.ok) =>
                      /\ err_ptr' = err_ptr
                      /\ dbus_err' = dbus_err
                      /\ handler'.res = NFD_OKAY
               /\ (last.op = "add" /\ ~last.ok) =>
                      /\ err_ptr' = DBUS_ERR_MESSAGE
                      /\ dbus_err' = DE_ADD_MATCH
                      /\ handler'.res = NFD_ERROR ]_vars

(* A Subscribe replaced a rule that was never registered: the remove-match *)
(* failed, the add-match succeeded and Subscribe returned NFD_OKAY with    *)
(* the slot as the caller had it.                                          *)
C26_Witness ==
    /\ handler.state = "live"
    /\ handler.res = NFD_OKAY
    /\ Len(busLog) = 5
    /\ busLog[3] = BusOp("add", Rule(GuessedPath), FALSE)
    /\ busLog[4] = BusOp("remove", Rule(GuessedPath), FALSE)
    /\ busLog[5] = BusOp("add", Rule(RedirectedPath), TRUE)
    /\ err_ptr = DBUS_ERR_MESSAGE
    /\ dbus_err = DE_ADD_MATCH

(* The OpenFile call message exists or existed, or the portal was asked. *)
CallMade ==
    \/ pc \in {"sent", "pop", "rw"}
    \/ query # "none"
    \/ released.query > 0
    \/ portalReply # NoReply

(* C27: the OpenFile call is created and sent only after the add-match for *)
(* the guessed address succeeded; when that Subscribe fails the operation  *)
(* has returned NFD_ERROR at once, and no call message was created, sent   *)
(* or released.                                                            *)
C27_SubscribedBeforeCall ==
    /\ CallMade => busLog[1] = BusOp("add", Rule(GuessedPath), TRUE)
    /\ pc = "call" => /\ busLog = <<BusOp("add", Rule(GuessedPath), TRUE)>>
                      /\ Rule(GuessedPath) \in busRules \/ closed
    /\ (Len(busLog) > 0 /\ ~busLog[1].ok) =>
           /\ pc = "done"
           /\ result = NFD_ERROR
           /\ ~CallMade
           /\ reply = "none"

(* The first Subscribe failed and the operation has returned. *)
C27_Witness ==
    /\ pc = "done"
    /\ result = NFD_ERROR
    /\ busLog[1] = BusOp("add", Rule(GuessedPath), FALSE)
    /\ query = "none"
    /\ ErrorMessage = DE_ADD_MATCH

(* C29, as claimed: AllocAndCopyFIlePath never reads `file` after the      *)
(* Response message that owns the string was released.                     *)
C29_MessageLiveWhenRead == ~readAfterUnref

-----------------------------------------------------------------------------
(* The nesting of the containers in the calls AppendOpenFileQueryParams    *)
(* makes.                                                                  *)

(* The containers open before call k: the open_container calls whose       *)
(* sub-iterator no later call before k closed.                             *)
OpenBefore(ops, k) ==
    { j \in 1..(k - 1) :
        /\ ops[j].op = "open"
        /\ ~\E c \in (j + 1)..(k - 1) : ops[c].op = "close" /\ ops[c].sub = ops[j].sub }

(* The iterator of the innermost container open before call k: the one of  *)
(* the message itself when none is.                                        *)
Innermost(ops, k) ==
    LET S == OpenBefore(ops, k)
    IN IF S = {} THEN "iter" ELSE ops[CHOOSE j \in S : \A i \in S : i <= j].sub

(* C30, as claimed: in the calls that build the query, every value and     *)
(* every container is appended to the innermost container open at that     *)
(* moment, every close closes that innermost container, and when the       *)
(* function returns every container opened has been closed, each once.     *)
C30_WellNested ==
    enc_out.done =>
        LET ops == enc_out.ops
        IN /\ \A k \in 1..Len(ops) :
                /\ ops[k].iter = (IF ops[k].op = "close"
                                  THEN Innermost(ops, LatestOpen(ops, ops[k].sub, k))
                                  ELSE Innermost(ops, k))
                /\ ops[k].op = "close" => ops[k].sub = Innermost(ops, k)
           /\ OpenBefore(ops, Len(ops) + 1) = {}
           /\ Cardinality({ k \in 1..Len(ops) : ops[k].op = "open" })
                  = Cardinality({ k \in 1..Len(ops) : ops[k].op = "close" })

-----------------------------------------------------------------------------
(* C31, as claimed: whenever NFD_OpenDialogN has returned NFD_OKAY, the    *)
(* error slot and the transport error buffer hold what they held before    *)
(* the call.                                                               *)
C31_OkayLeavesErrorSlot ==
    (pc = "done" /\ result = NFD_OKAY) =>
        /\ err_ptr = pre.err_ptr
        /\ dbus_err = pre.dbus_err

(* C32, as claimed: when dbus_connection_read_write reports the connection *)
(* closed and no Response signal has produced a URI, the operation returns *)
(* NFD_ERROR with the 'did not give us a reply' message, and no Response   *)
(* signal received into the queue is left there unexamined.                *)
C32_DisconnectEndsWait ==
    [][ (pc = "rw" /\ closed /\ pc' = "done") =>
            /\ result' = NFD_ERROR
            /\ err_ptr' = E_NO_REPLY
            /\ \A i \in 1..Len(queue') : ~IsResponseSignal(queue'[i]) ]_vars

====
